---------------------------- MODULE Spec2Model ----------------------------
(***************************************************************************)
(* hergmes: the base58 codec (src/address/base58.rs), the Ergo address     *)
(* codec (src/address/mod.rs) and the mempool watcher (src/watcher/, with  *)
(* the node client's requests of src/clients/node.rs).                     *)
(*                                                                         *)
(* Bytes are naturals in 0..255.  A Rust &str / String is the sequence of  *)
(* its UTF-8 code units, a Vec<u8> / &[u8] is a sequence of bytes.  Rust   *)
(* indexes from 0, TLA+ sequences from 1: the models keep the 0-based      *)
(* index variables of the code and read buf[i + 1].                        *)
(*                                                                         *)
(* A call's outcome is a record [tag, val, err]: tag "Ok" with the value,  *)
(* tag "Err" with the error's name, tag "Panic" for an index out of range  *)
(* (Rust's bounds check), tag "None" for a call not made yet.              *)
(***************************************************************************)
EXTENDS Integers, Sequences, FiniteSets, TLC

VARIABLES
    run,         \* the kind of run: "base58", "base58text", "text", "tree" or "watcher"
    b58_pc,      \* base58 run: "encode", "decode", "decode_into", "done" ("off" in other runs)
    b58_data,    \* base58 run: the input bytes
    b58_text,    \* base58 run: outcome of encode(b58_data), or the text given
    b58_back,    \* base58 run: outcome of decode(text of b58_text)
    b58_buf,     \* base58 run: the caller's buffer before decode_into
    b58_into,    \* base58 run: outcome of decode_into: the count and the buffer after it
    b58_again,   \* base58 run: outcome of encode(bytes of b58_back)
    pc,          \* address run: the next call ("off" in other runs)
    encoded,     \* address run: the text handed to the decode family
    tree_in,     \* address run: the tree handed to from_ergo_tree
    network_in,  \* address run: the network handed to from_ergo_tree
    dec_bytes,   \* decode's local: outcome of bs58::decode(encoded).into_vec()
    address,     \* outcome of the constructor: decode(encoded) or from_ergo_tree
    r_unsafe,    \* outcome of decode_unsafe(encoded)
    r_validate,  \* outcome of validate(encoded)
    r_network,   \* outcome of get_network_type(encoded)
    r_type,      \* outcome of get_address_type(encoded)
    a_enc,       \* outcome of address.encode()
    a_dec,       \* outcome of decode(a_enc)
    orig,        \* the text, its decoded bytes and the position of a replaced character
    net_b,       \* the network handed to encode_for_network
    a_encn,      \* outcome of address.encode_for_network(net_b)
    a_decn,      \* outcome of decode(a_encn)
    a_valid,     \* outcome of validate(a_encn)
    r_pubkey,    \* outcome of address.get_public_key()
    r_t2b,       \* tree run: outcome of tree_to_base58(tree_in, network_in)
    r_b2t,       \* outcome of base58_to_tree(encoded), in a tree run of base58_to_tree(r_t2b)
    u_enc,       \* outcome of encode() on the address of r_unsafe
    u_pubkey,    \* outcome of get_public_key() on the address of r_unsafe
    spawn_pc,    \* watcher run: where the caller of watcher::spawn is ("off" in other runs)
    task_pc,     \* watcher run: where the task running mempool::start is
    swap,        \* the shared ArcSwap<MempoolSnapshot>: the snapshot it points to
    last_update, \* start's local last_update
    r_info,      \* this iteration's outcome of get_last_mempool_update_timestamp
    resp,        \* this iteration's reply to GET transactions/unconfirmed
    r_snapshot,  \* this iteration's outcome of get_mempool_snapshot
    node_time,   \* the node: lastMemPoolUpdateTime of its info
    node_pool,   \* the node: its unconfirmed transactions
    info_up,     \* the node: whether GET info is answered
    pool_up      \* the node: whether GET transactions/unconfirmed is answered

b58_vars == <<b58_pc, b58_data, b58_text, b58_back, b58_buf, b58_into, b58_again>>
more_vars == <<net_b, a_encn, a_decn, a_valid, r_pubkey, r_t2b, r_b2t, u_enc, u_pubkey>>
addr_vars == <<pc, encoded, tree_in, network_in, dec_bytes, address, r_unsafe,
               r_validate, r_network, r_type, a_enc, a_dec, orig, more_vars>>
node_vars == <<node_time, node_pool, info_up, pool_up>>
watcher_vars == <<spawn_pc, task_pc, swap, last_update, r_info, resp, r_snapshot, node_vars>>
vars == <<run, b58_vars, addr_vars, watcher_vars>>

-----------------------------------------------------------------------------
(* Outcomes *)

Ok(v) == [tag |-> "Ok", val |-> v, err |-> "none", ch |-> 0]
Err(e) == [tag |-> "Err", val |-> <<>>, err |-> e, ch |-> 0]
ErrChar(c) == [tag |-> "Err", val |-> <<>>, err |-> "InvalidCharacter", ch |-> c]
Panic == [tag |-> "Panic", val |-> <<>>, err |-> "index out of bounds", ch |-> 0]
Some(v) == [tag |-> "Some", val |-> v, err |-> "none", ch |-> 0]
None == [tag |-> "Nothing", val |-> <<>>, err |-> "none", ch |-> 0]
NotCalled == [tag |-> "None", val |-> <<>>, err |-> "none", ch |-> 0]

\* (\o <<>> makes the function a tuple, which EXCEPT updates in place)
Reverse(s) == [i \in 1..Len(s) |-> s[Len(s) + 1 - i]] \o <<>>
Zeroes(n) == [i \in 1..n |-> 0] \o <<>>

\* F(e) with e evaluated once, before F: a local binding "let x = e" of the
\* code whose value is used more than once.
Let(e, F(_)) == LET x == e IN IF x = x THEN F(x) ELSE F(x)

-----------------------------------------------------------------------------
(* src/address/base58.rs *)

\* b"123456789ABCDEFGHJKLMNPQRSTUVWXYZabcdefghijkmnopqrstuvwxyz"
ALPHABET ==
    << 49, 50, 51, 52, 53, 54, 55, 56, 57,                     \* 1..9
       65, 66, 67, 68, 69, 70, 71, 72,                         \* A..H
       74, 75, 76, 77, 78,                                     \* J..N
       80, 81, 82, 83, 84, 85, 86, 87, 88, 89, 90,             \* P..Z
       97, 98, 99, 100, 101, 102, 103, 104, 105, 106, 107,     \* a..k
       109, 110, 111, 112, 113, 114, 115, 116, 117, 118, 119,  \* m..w
       120, 121, 122 >>                                        \* x..z

\* map = [0xFF; 256]; map[ALPHABET[i]] = i for i < 58
DECODE_MAP ==
    [c \in 0..255 |->
        IF \E i \in 0..57 : ALPHABET[i + 1] = c
        THEN CHOOSE i \in 0..57 : ALPHABET[i + 1] = c
        ELSE 255]

\* max_encoded_len that allows 1.36 characters for a byte
max_encoded_len_tight(bytes_len) == (bytes_len * 136) \div 100

max_encoded_len(bytes_len) == (bytes_len * 138) \div 100 + 1

\* max_decoded_len without the byte added to the quotient
max_decoded_len_tight(chars_len) == (chars_len * 733) \div 1000

max_decoded_len(chars_len) == (chars_len * 733) \div 1000 + 1

\* s.is_char_boundary(i) of the standard library: 0, the length, or a byte
\* that is not a UTF-8 continuation byte (10xxxxxx)
is_char_boundary(s, i) ==
    \/ i = 0
    \/ i = Len(s)
    \/ i < Len(s) /\ (s[i + 1] < 128 \/ s[i + 1] >= 192)

\* s[start..].chars().next(): the code point of the UTF-8 character that
\* starts at byte start, or U+FFFD when there is none
first_char(s, start) ==
    IF start >= Len(s) THEN 65533
    ELSE LET b0 == s[start + 1]
             cont(k) == s[start + 1 + k] % 64
         IN  IF b0 < 128 THEN b0
             ELSE IF b0 < 224 THEN (b0 % 32) * 64 + cont(1)
             ELSE IF b0 < 240 THEN (b0 % 16) * 4096 + cont(1) * 64 + cont(2)
             ELSE (b0 % 8) * 262144 + cont(1) * 4096 + cont(2) * 64 + cont(3)

RECURSIVE align_char_boundary(_, _)
align_char_boundary(s, start) ==
    IF start > 0 /\ ~is_char_boundary(s, start)
    THEN align_char_boundary(s, start - 1)
    ELSE start

\* err_non_ascii that reports the code unit at byte_index as the character
err_non_ascii_code_unit(s, byte_index) == ErrChar(s[byte_index + 1])

err_non_ascii(s, byte_index) ==
    LET start == align_char_boundary(s, IF byte_index < Len(s) THEN byte_index ELSE Len(s))
    IN  ErrChar(first_char(s, start))

\* leading_count with the loop left out: no leading zero is counted
leading_count_none(data, lead, zeros) == zeros

\* while zeros < data.len() && data[zeros] == lead { zeros += 1 }
\* (the first index from zeros on whose byte is not lead, or data.len())
leading_count(data, lead, zeros) ==
    LET stops == {i \in zeros..(Len(data) - 1) : data[i + 1] # lead}
    IN  IF zeros >= Len(data) THEN zeros
        ELSE IF stops = {} THEN Len(data)
        ELSE CHOOSE i \in stops : \A j \in stops : i <= j

\* The working buffer of encode/decode: the Vec, the write index, and whether
\* a write went past the Vec's length.
Work(buf, index) == [buf |-> buf, index |-> index, oob |-> FALSE]

\* buf[index] = v; index += 1
push(w, v) ==
    IF w.oob \/ w.index >= Len(w.buf)
    THEN [w EXCEPT !.oob = TRUE]
    ELSE [buf |-> [w.buf EXCEPT ![w.index + 1] = v], index |-> w.index + 1, oob |-> FALSE]

\* for _ in 0..zeros { buf[index] = 0; index += 1 }
\* (the zeros that fit are written; one that does not fit is a write past the end)
push_zeros(w, zeros) ==
    IF w.oob \/ zeros = 0 THEN w
    ELSE LET last == IF w.index + zeros <= Len(w.buf) THEN w.index + zeros ELSE Len(w.buf)
         IN  [buf |-> [i \in 1..Len(w.buf) |->
                          IF w.index < i /\ i <= last THEN 0 ELSE w.buf[i]] \o <<>>,
              index |-> last,
              oob |-> w.index + zeros > Len(w.buf)]

\* The loops over the buffer and over the input are folded by quarters of
\* the index range (each quarter on the result of the one before), which
\* visits the indices in the code's order.  The arms on q1, q2 and q3 evaluate
\* these quarters, in this order, before the last one starts; none of them
\* is ever taken.

\* encode, lines 57-61, for the bytes buf[lo..hi]:
\*   for byte in &mut buf[..index] { carry += (*byte) << 8; *byte = carry % 58; carry /= 58 }
RECURSIVE encode_carry(_, _, _)
encode_carry(st, lo, hi) ==
    LET m1 == lo + (hi - lo) \div 4
        m2 == lo + (hi - lo) \div 2
        m3 == lo + (3 * (hi - lo)) \div 4
        q1 == encode_carry(st, lo, m1)
        q2 == encode_carry(q1, m1, m2)
        q3 == encode_carry(q2, m2, m3)
    IN  CASE lo >= hi -> st
          [] lo + 1 = hi ->
               LET c == st.carry + st.buf[lo + 1] * 256
               IN  [buf |-> [st.buf EXCEPT ![lo + 1] = c % 58], carry |-> c \div 58]
          [] q1 # q1 -> st
          [] q2 # q2 -> st
          [] q3 # q3 -> st
          [] OTHER -> encode_carry(q3, m3, hi)

\* encode_spill that writes one digit of the carry and drops the rest
encode_spill_once(w, carry) ==
    IF carry = 0 \/ w.oob THEN w ELSE push(w, carry % 58)

\* encode, lines 63-67: while carry > 0 { buf[index] = carry % 58; index += 1; carry /= 58 }
RECURSIVE encode_spill(_, _)
encode_spill(w, carry) ==
    IF carry = 0 \/ w.oob THEN w
    ELSE LET pushed == push(w, carry % 58)
         IN  IF pushed = pushed THEN encode_spill(pushed, carry \div 58) ELSE w

\* encode, lines 54-68, for the input bytes input[lo..hi]: for &val in input { ... }
RECURSIVE encode_digits(_, _, _, _)
encode_digits(input, lo, hi, w) ==
    LET m1 == lo + (hi - lo) \div 4
        m2 == lo + (hi - lo) \div 2
        m3 == lo + (3 * (hi - lo)) \div 4
        q1 == encode_digits(input, lo, m1, w)
        q2 == encode_digits(input, m1, m2, q1)
        q3 == encode_digits(input, m2, m3, q2)
    IN  CASE lo >= hi \/ w.oob -> w
          [] lo + 1 = hi ->
               LET r == encode_carry([buf |-> w.buf, carry |-> input[lo + 1]], 0, w.index)
               IN  IF r = r THEN encode_spill(Work(r.buf, w.index), r.carry) ELSE w
          [] q1 # q1 -> w
          [] q2 # q2 -> w
          [] q3 # q3 -> w
          [] OTHER -> encode_digits(input, m3, hi, q3)

\* encode_work without the zero run of lines 70-73
encode_work_no_zero_run(data) ==
    LET zeros == leading_count(data, 0, 0)
        input == SubSeq(data, zeros + 1, Len(data))
        buf0  == Zeroes(max_encoded_len(Len(input)) + zeros)
    IN  encode_digits(input, 0, Len(input), Work(buf0, 0))

\* The state of encode's buffer after the digit loop and the zero run
\* (lines 45-73), before the alphabet mapping.
encode_work(data) ==
    LET zeros == leading_count(data, 0, 0)
        input == SubSeq(data, zeros + 1, Len(data))
        buf0  == Zeroes(max_encoded_len(Len(input)) + zeros)
    IN  Let(encode_digits(input, 0, Len(input), Work(buf0, 0)),
            LAMBDA w : push_zeros(w, zeros))

encode(data) ==
    IF data = <<>> THEN Ok(<<>>)
    ELSE Let(encode_work(data),
             LAMBDA w : IF w.oob THEN Panic
                        ELSE Ok(Reverse([i \in 1..w.index |-> ALPHABET[w.buf[i] + 1]])))

\* decode, lines 109-113, for the bytes buf[lo..hi]:
\*   for byte in &mut buf[..index] { val += (*byte) * 58; *byte = val & 0xFF; val >>= 8 }
RECURSIVE decode_carry(_, _, _)
decode_carry(st, lo, hi) ==
    LET m1 == lo + (hi - lo) \div 4
        m2 == lo + (hi - lo) \div 2
        m3 == lo + (3 * (hi - lo)) \div 4
        q1 == decode_carry(st, lo, m1)
        q2 == decode_carry(q1, m1, m2)
        q3 == decode_carry(q2, m2, m3)
    IN  CASE lo >= hi -> st
          [] lo + 1 = hi ->
               LET v == st.carry + st.buf[lo + 1] * 58
               IN  [buf |-> [st.buf EXCEPT ![lo + 1] = v % 256], carry |-> v \div 256]
          [] q1 # q1 -> st
          [] q2 # q2 -> st
          [] q3 # q3 -> st
          [] OTHER -> decode_carry(q3, m3, hi)

\* decode, lines 115-119: while val > 0 { buf[index] = val & 0xFF; index += 1; val >>= 8 }
RECURSIVE decode_spill(_, _)
decode_spill(w, val) ==
    IF val = 0 \/ w.oob THEN w
    ELSE LET pushed == push(w, val % 256)
         IN  IF pushed = pushed THEN decode_spill(pushed, val \div 256) ELSE w

\* decode, lines 99-120, for the characters bytes[lo..hi].  r is Ok(work
\* buffer) or the error of an earlier character, which ends the loop.
RECURSIVE decode_digits(_, _, _, _)
decode_digits(bytes, lo, hi, r) ==
    LET m1 == lo + (hi - lo) \div 4
        m2 == lo + (hi - lo) \div 2
        m3 == lo + (3 * (hi - lo)) \div 4
        q1 == decode_digits(bytes, lo, m1, r)
        q2 == decode_digits(bytes, m1, m2, q1)
        q3 == decode_digits(bytes, m2, m3, q2)
    IN  CASE lo >= hi \/ r.tag # "Ok" \/ r.val.oob -> r
          [] lo + 1 = hi ->
               LET c == bytes[lo + 1]
                   w == r.val
                   d == decode_carry([buf |-> w.buf, carry |-> DECODE_MAP[c]], 0, w.index)
               IN  CASE c >= 128 -> err_non_ascii(bytes, lo)
                     [] DECODE_MAP[c] = 255 -> ErrChar(c)
                     [] OTHER -> IF d = d THEN Ok(decode_spill(Work(d.buf, w.index), d.carry))
                                 ELSE r
          [] q1 # q1 -> r
          [] q2 # q2 -> r
          [] q3 # q3 -> r
          [] OTHER -> decode_digits(bytes, m3, hi, q3)

\* decode_work without the zero run of lines 122-125
decode_work_no_zero_run(s) ==
    LET zeros == leading_count(s, 49, 0)
        buf0  == Zeroes(zeros + max_decoded_len(Len(s) - zeros))
    IN  decode_digits(s, zeros, Len(s), Ok(Work(buf0, 0)))

\* The state of decode's buffer after the digit loop and the zero run
\* (lines 91-125), or the error.
decode_work(s) ==
    LET zeros == leading_count(s, 49, 0)
        buf0  == Zeroes(zeros + max_decoded_len(Len(s) - zeros))
    IN  Let(decode_digits(s, zeros, Len(s), Ok(Work(buf0, 0))),
            LAMBDA r : IF r.tag = "Ok" THEN Ok(push_zeros(r.val, zeros)) ELSE r)

decode(s) ==
    IF s = <<>> THEN Ok(<<>>)
    ELSE Let(decode_work(s),
             LAMBDA r : IF r.tag # "Ok" THEN r
                        ELSE IF r.val.oob THEN Panic
                        ELSE Ok(Reverse(SubSeq(r.val.buf, 1, r.val.index))))

\* decode_into_inner, lines 156-160, for the bytes buf[lo..hi]:
\*   for byte in &mut buf[..index] { val += (*byte) * 58; *byte = val & 0xFF; val >>= 8 }
RECURSIVE decode_into_carry(_, _, _)
decode_into_carry(st, lo, hi) ==
    LET m1 == lo + (hi - lo) \div 4
        m2 == lo + (hi - lo) \div 2
        m3 == lo + (3 * (hi - lo)) \div 4
        q1 == decode_into_carry(st, lo, m1)
        q2 == decode_into_carry(q1, m1, m2)
        q3 == decode_into_carry(q2, m2, m3)
    IN  CASE lo >= hi -> st
          [] lo + 1 = hi ->
               LET v == st.val + st.buf[lo + 1] * 58
               IN  [buf |-> [st.buf EXCEPT ![lo + 1] = v % 256], val |-> v \div 256]
          [] q1 # q1 -> st
          [] q2 # q2 -> st
          [] q3 # q3 -> st
          [] OTHER -> decode_into_carry(q3, m3, hi)

\* decode_into_inner, lines 162-166:
\*   while val > 0 { buf[index] = val & 0xFF; index += 1; val >>= 8 }
RECURSIVE decode_into_spill(_, _)
decode_into_spill(w, val) ==
    IF val = 0 \/ w.oob THEN w
    ELSE LET pushed == push(w, val % 256)
         IN  IF pushed = pushed THEN decode_into_spill(pushed, val \div 256) ELSE w

\* decode_into_inner, lines 153-167, for the characters bytes[lo..hi]:
\*   for &c in &bytes[zeros..] { let mut val = DECODE_MAP[c as usize] as usize; ... }
\* No character is checked: one outside the alphabet enters as 0xFF.
RECURSIVE decode_into_digits(_, _, _, _)
decode_into_digits(bytes, lo, hi, w) ==
    LET m1 == lo + (hi - lo) \div 4
        m2 == lo + (hi - lo) \div 2
        m3 == lo + (3 * (hi - lo)) \div 4
        q1 == decode_into_digits(bytes, lo, m1, w)
        q2 == decode_into_digits(bytes, m1, m2, q1)
        q3 == decode_into_digits(bytes, m2, m3, q2)
    IN  CASE lo >= hi \/ w.oob -> w
          [] lo + 1 = hi ->
               LET d == decode_into_carry([buf |-> w.buf, val |-> DECODE_MAP[bytes[lo + 1]]],
                                          0, w.index)
               IN  IF d = d THEN decode_into_spill(Work(d.buf, w.index), d.val) ELSE w
          [] q1 # q1 -> w
          [] q2 # q2 -> w
          [] q3 # q3 -> w
          [] OTHER -> decode_into_digits(bytes, m3, hi, q3)

\* The outcome of decode_into: the count returned and the caller's buffer
\* after the call.
Into(n, buf) == Ok([n |-> n, buf |-> buf])

\* decode_into_inner that skips over the zero run instead of writing it
decode_into_inner_skip_zeros(bytes, zeros, buf) ==
    Let(decode_into_digits(bytes, zeros, Len(bytes), Work(buf, 0)),
        LAMBDA w :
            IF w.oob \/ w.index + zeros > Len(buf) THEN Panic
            ELSE Into(w.index + zeros,
                      Reverse(SubSeq(w.buf, 1, w.index + zeros))
                          \o SubSeq(w.buf, w.index + zeros + 1, Len(w.buf))))

decode_into_inner(bytes, zeros, buf) ==
    Let(decode_into_digits(bytes, zeros, Len(bytes), Work(buf, 0)),
        LAMBDA w :
            Let(push_zeros(w, zeros),
                LAMBDA z :
                    IF z.oob THEN Panic
                    ELSE Into(z.index,
                              Reverse(SubSeq(z.buf, 1, z.index))
                                  \o SubSeq(z.buf, z.index + 1, Len(z.buf)))))

decode_into(s, out) ==
    IF s = <<>> THEN Into(0, out)
    ELSE decode_into_inner(s, leading_count(s, 49, 0), out)

-----------------------------------------------------------------------------
(* src/address/mod.rs *)

CHECKSUM_LENGTH == 4
BLAKE_256_HASH_LENGTH == 32

P2PK_ERGOTREE_PREFIX == <<0, 8, 205>>
P2PK_ERGOTREE_LENGTH == 36
P2PK_PUBKEY_LENGTH == 33

P2SH_ERGOTREE_PREFIX ==
    <<0, 234, 2, 209, 147, 180, 203, 228, 227, 1, 14, 4, 0, 4, 48, 14, 24>>
P2SH_ERGOTREE_SUFFIX == <<212, 8, 1>>
P2SH_ERGOTREE_LENGTH == 44
P2SH_HASH_LENGTH == 24

Networks == {"Mainnet", "Testnet"}
AddressTypes == {"P2PK", "P2SH", "P2S"}

\* #[repr(u8)] enum Network { Mainnet = 0x00, Testnet = 0x10 }
Network_value(n) == IF n = "Testnet" THEN 16 ELSE 0

\* #[repr(u8)] enum AddressType { P2PK = 1, P2SH = 2, P2S = 3 }
AddressType_value(t) == IF t = "P2PK" THEN 1 ELSE IF t = "P2SH" THEN 2 ELSE 3

\* from_head_byte that tests the low bit of the network nibble
Network_from_head_byte_low_bit(byte) ==
    IF (byte \div 16) % 2 = 1 THEN "Testnet" ELSE "Mainnet"

\* match byte & 0xf0 { 0x00 => Mainnet, 0x10 => Testnet, _ => Mainnet }
Network_from_head_byte(byte) ==
    LET hi == (byte \div 16) * 16
    IN  IF hi = 0 THEN "Mainnet" ELSE IF hi = 16 THEN "Testnet" ELSE "Mainnet"

\* match byte & 0x0f { 1 => Some(P2PK), 2 => Some(P2SH), 3 => Some(P2S), _ => None }
AddressType_from_head_byte(byte) ==
    LET lo == byte % 16
    IN  IF lo = 1 THEN "P2PK" ELSE IF lo = 2 THEN "P2SH" ELSE IF lo = 3 THEN "P2S"
        ELSE "None"

Address(tree, network, type) ==
    [ergo_tree |-> tree, network |-> network, address_type |-> type]

starts_with(s, prefix) ==
    Len(s) >= Len(prefix) /\ SubSeq(s, 1, Len(prefix)) = prefix

ends_with(s, suffix) ==
    Len(s) >= Len(suffix) /\ SubSeq(s, Len(s) - Len(suffix) + 1, Len(s)) = suffix

\* &s[from..to]: Ok(slice), or Panic when the range is not within s
slice(s, from, to) ==
    IF from <= to /\ to <= Len(s) THEN Ok(SubSeq(s, from + 1, to)) ELSE Panic

\* The digest is computed by the blake2 crate, which is not code of this
\* repository.  The address code uses nothing of it but that it is a function
\* of the data and BLAKE_256_HASH_LENGTH bytes long; the model fixes one such
\* function, a multiplicative fold of the data.
\* The fold runs over data[lo..hi] by quarters of the range, in the order
\* of the bytes.
RECURSIVE digest_fold(_, _, _, _)
digest_fold(data, lo, hi, acc) ==
    LET m1 == lo + (hi - lo) \div 4
        m2 == lo + (hi - lo) \div 2
        m3 == lo + (3 * (hi - lo)) \div 4
        q1 == digest_fold(data, lo, m1, acc)
        q2 == digest_fold(data, m1, m2, q1)
        q3 == digest_fold(data, m2, m3, q2)
    IN  CASE lo >= hi -> acc
          [] lo + 1 = hi ->
               (acc * 127 + data[lo + 1] + 1) % 16777213
          [] q1 # q1 -> acc
          [] q2 # q2 -> acc
          [] q3 # q3 -> acc
          [] OTHER -> digest_fold(data, m3, hi, q3)

blake2b256(data) ==
    Let(digest_fold(data, 0, Len(data), 5381 + Len(data)),
        LAMBDA acc :
            [i \in 1..BLAKE_256_HASH_LENGTH |->
                LET w == (acc + ((i - 1) \div 3) * 65599) % 16777216
                IN  IF (i - 1) % 3 = 0 THEN w % 256
                    ELSE IF (i - 1) % 3 = 1 THEN (w \div 256) % 256
                    ELSE w \div 65536] \o <<>>)

\* bs58::decode(encoded).into_vec().map_err(|_| AddressError::Base58DecodeError):
\* the bs58 crate is not code of this repository; it computes the base58
\* conversion over the same alphabet that base58.rs implements.
bs58_decode(text) ==
    LET r == decode(text)
    IN  IF r.tag = "Err" THEN Err("Base58DecodeError") ELSE r

\* bs58::encode(&content).into_string()
bs58_encode(content) == encode(content)

\* get_ergo_tree_type that classifies by the prefix alone
get_ergo_tree_type_prefix_only(ergo_tree) ==
    IF starts_with(ergo_tree, P2PK_ERGOTREE_PREFIX) THEN "P2PK"
    ELSE IF starts_with(ergo_tree, P2SH_ERGOTREE_PREFIX) THEN "P2SH"
    ELSE "P2S"

get_ergo_tree_type(ergo_tree) ==
    IF Len(ergo_tree) = P2PK_ERGOTREE_LENGTH /\ starts_with(ergo_tree, P2PK_ERGOTREE_PREFIX)
    THEN "P2PK"
    ELSE IF /\ Len(ergo_tree) = P2SH_ERGOTREE_LENGTH
            /\ starts_with(ergo_tree, P2SH_ERGOTREE_PREFIX)
            /\ ends_with(ergo_tree, P2SH_ERGOTREE_SUFFIX)
    THEN "P2SH"
    ELSE "P2S"

\* from_ergo_tree that classifies by the length alone
from_ergo_tree_by_length(ergo_tree, network) ==
    Ok(Address(ergo_tree, network,
               IF Len(ergo_tree) = P2PK_ERGOTREE_LENGTH THEN "P2PK"
               ELSE IF Len(ergo_tree) = P2SH_ERGOTREE_LENGTH THEN "P2SH" ELSE "P2S"))

from_ergo_tree(ergo_tree, network) ==
    Ok(Address(ergo_tree, network, get_ergo_tree_type(ergo_tree)))

\* unpack_address after the length check: bytes[0], &bytes[1..len - 4] and
\* &bytes[len - 4..], each an index that Rust checks (len - 4 itself
\* underflows when len < 4)
unpack_fields(bs) ==
    IF Len(bs) < 1 \/ Len(bs) < CHECKSUM_LENGTH THEN Panic
    ELSE LET head == bs[1]
             body == slice(bs, 1, Len(bs) - CHECKSUM_LENGTH)
             checksum == slice(bs, Len(bs) - CHECKSUM_LENGTH, Len(bs))
             network == Network_from_head_byte(head)
             address_type == AddressType_from_head_byte(head)
         IN  IF body.tag # "Ok" THEN body
             ELSE IF checksum.tag # "Ok" THEN checksum
             ELSE IF address_type = "None" THEN Err("InvalidAddressType")
             ELSE Ok([head |-> head, body |-> body.val, checksum |-> checksum.val,
                      network |-> network, address_type |-> address_type])

\* unpack_address without the length check of lines 212-214
unpack_address_unchecked(bs) == unpack_fields(bs)

unpack_address(bs) ==
    IF Len(bs) < 5 THEN Err("AddressTooShort") ELSE unpack_fields(bs)

\* validate_checksum that accepts every checksum
validate_checksum_any(unpacked) == TRUE

validate_checksum(unpacked) ==
    LET content == <<unpacked.head>> \o unpacked.body
        hash == blake2b256(content)
    IN  SubSeq(hash, 1, CHECKSUM_LENGTH) = unpacked.checksum

\* from_unpacked that does not re-attach the P2SH suffix
from_unpacked_no_suffix(unpacked) ==
    IF unpacked.address_type = "P2PK" /\ Len(unpacked.body) # P2PK_PUBKEY_LENGTH
    THEN Err("InvalidErgoTree")
    ELSE IF unpacked.address_type = "P2SH" /\ Len(unpacked.body) # P2SH_HASH_LENGTH
    THEN Err("InvalidErgoTree")
    ELSE LET ergo_tree ==
                 IF unpacked.address_type = "P2PK"
                 THEN P2PK_ERGOTREE_PREFIX \o unpacked.body
                 ELSE IF unpacked.address_type = "P2SH"
                 THEN P2SH_ERGOTREE_PREFIX \o unpacked.body
                 ELSE unpacked.body
         IN  Ok(Address(ergo_tree, unpacked.network, unpacked.address_type))

from_unpacked(unpacked) ==
    IF unpacked.address_type = "P2PK" /\ Len(unpacked.body) # P2PK_PUBKEY_LENGTH
    THEN Err("InvalidErgoTree")
    ELSE IF unpacked.address_type = "P2SH" /\ Len(unpacked.body) # P2SH_HASH_LENGTH
    THEN Err("InvalidErgoTree")
    ELSE LET ergo_tree ==
                 IF unpacked.address_type = "P2PK"
                 THEN P2PK_ERGOTREE_PREFIX \o unpacked.body
                 ELSE IF unpacked.address_type = "P2SH"
                 THEN P2SH_ERGOTREE_PREFIX \o unpacked.body \o P2SH_ERGOTREE_SUFFIX
                 ELSE unpacked.body
         IN  Ok(Address(ergo_tree, unpacked.network, unpacked.address_type))

\* decode_bytes with the shape check ahead of the checksum check
decode_bytes_shape_first(bs) ==
    IF bs.tag # "Ok" THEN bs
    ELSE LET unpacked == unpack_address(bs.val)
         IN  IF unpacked.tag # "Ok" THEN unpacked
             ELSE IF from_unpacked(unpacked.val).tag # "Ok" THEN from_unpacked(unpacked.val)
             ELSE IF ~validate_checksum(unpacked.val) THEN Err("InvalidChecksum")
             ELSE from_unpacked(unpacked.val)

\* ErgoAddress::decode after the base58 step, bs being its outcome
decode_bytes(bs) ==
    IF bs.tag # "Ok" THEN bs
    ELSE LET unpacked == unpack_address(bs.val)
         IN  IF unpacked.tag # "Ok" THEN unpacked
             ELSE IF ~validate_checksum(unpacked.val) THEN Err("InvalidChecksum")
             ELSE from_unpacked(unpacked.val)

ErgoAddress_decode(text) == decode_bytes(bs58_decode(text))

\* decode_unsafe that compares the checksum all the same
ErgoAddress_decode_unsafe_checked(text) == decode_bytes(bs58_decode(text))

ErgoAddress_decode_unsafe(text) ==
    LET bs == bs58_decode(text)
    IN  IF bs.tag # "Ok" THEN bs
        ELSE LET unpacked == unpack_address(bs.val)
             IN  IF unpacked.tag # "Ok" THEN unpacked
                 ELSE from_unpacked(unpacked.val)

\* validate by decode_unsafe
ErgoAddress_validate_unsafe(text) ==
    LET r == ErgoAddress_decode_unsafe(text)
    IN  IF r.tag = "Panic" THEN r ELSE Ok(r.tag = "Ok")

ErgoAddress_validate(text) ==
    LET r == ErgoAddress_decode(text)
    IN  IF r.tag = "Panic" THEN r ELSE Ok(r.tag = "Ok")

get_network_type(text) ==
    LET bs == bs58_decode(text)
    IN  IF bs.tag # "Ok" THEN bs
        ELSE IF bs.val = <<>> THEN Err("AddressTooShort")
        ELSE Ok(Network_from_head_byte(bs.val[1]))

\* get_address_type that reads the type off a full decode
get_address_type_decoded(text) ==
    LET r == ErgoAddress_decode(text)
    IN  IF r.tag # "Ok" THEN r ELSE Ok(r.val.address_type)

get_address_type(text) ==
    LET bs == bs58_decode(text)
    IN  IF bs.tag # "Ok" THEN bs
        ELSE IF bs.val = <<>> THEN Err("AddressTooShort")
        ELSE LET t == AddressType_from_head_byte(bs.val[1])
             IN  IF t = "None" THEN Err("InvalidAddressType") ELSE Ok(t)

\* encode_address that takes the checksum of the body without the header byte
encode_address_sum_of_body(network, address_type, body) ==
    LET head == Network_value(network) + AddressType_value(address_type)
        content == <<head>> \o body
        hash == blake2b256(body)
        checksum == SubSeq(hash, 1, CHECKSUM_LENGTH)
    IN  bs58_encode(content \o checksum)

\* encode_address that leaves the network out of the header byte
encode_address_type_only(network, address_type, body) ==
    LET head == AddressType_value(address_type)
        content == <<head>> \o body
        hash == blake2b256(content)
        checksum == SubSeq(hash, 1, CHECKSUM_LENGTH)
    IN  bs58_encode(content \o checksum)

encode_address(network, address_type, body) ==
    LET head == Network_value(network) + AddressType_value(address_type)
        content == <<head>> \o body
        hash == blake2b256(content)
        checksum == SubSeq(hash, 1, CHECKSUM_LENGTH)
    IN  bs58_encode(content \o checksum)

\* encode_for_network that writes the address's own network
encode_for_network_own_network(a, network) ==
    LET body ==
            IF a.address_type = "P2PK"
            THEN slice(a.ergo_tree, Len(P2PK_ERGOTREE_PREFIX), Len(a.ergo_tree))
            ELSE IF a.address_type = "P2SH"
            THEN slice(a.ergo_tree, Len(P2SH_ERGOTREE_PREFIX),
                       Len(P2SH_ERGOTREE_PREFIX) + P2SH_HASH_LENGTH)
            ELSE Ok(a.ergo_tree)
    IN  IF body.tag # "Ok" THEN body
        ELSE encode_address(a.network, a.address_type, body.val)

\* encode_for_network that packs the whole tree of a P2PK address, prefix included
encode_for_network_whole_tree(a, network) ==
    LET body ==
            IF a.address_type = "P2SH"
            THEN slice(a.ergo_tree, Len(P2SH_ERGOTREE_PREFIX),
                       Len(P2SH_ERGOTREE_PREFIX) + P2SH_HASH_LENGTH)
            ELSE Ok(a.ergo_tree)
    IN  IF body.tag # "Ok" THEN body
        ELSE encode_address(network, a.address_type, body.val)

encode_for_network(a, network) ==
    LET body ==
            IF a.address_type = "P2PK"
            THEN slice(a.ergo_tree, Len(P2PK_ERGOTREE_PREFIX), Len(a.ergo_tree))
            ELSE IF a.address_type = "P2SH"
            THEN slice(a.ergo_tree, Len(P2SH_ERGOTREE_PREFIX),
                       Len(P2SH_ERGOTREE_PREFIX) + P2SH_HASH_LENGTH)
            ELSE Ok(a.ergo_tree)
    IN  IF body.tag # "Ok" THEN body
        ELSE encode_address(network, a.address_type, body.val)

ErgoAddress_encode(a) == encode_for_network(a, a.network)

\* get_public_key that does not look at the type
get_public_key_any_type(a) ==
    LET pk == slice(a.ergo_tree, Len(P2PK_ERGOTREE_PREFIX), Len(a.ergo_tree))
    IN  IF pk.tag = "Ok" THEN Some(pk.val) ELSE pk

get_public_key(a) ==
    IF a.address_type = "P2PK"
    THEN LET pk == slice(a.ergo_tree, Len(P2PK_ERGOTREE_PREFIX), Len(a.ergo_tree))
         IN  IF pk.tag = "Ok" THEN Some(pk.val) ELSE pk
    ELSE None

\* tree_to_base58 without the check for the empty tree
tree_to_base58_unchecked(ergo_tree, network) ==
    LET address_type == get_ergo_tree_type(ergo_tree)
        body ==
            IF address_type = "P2PK"
            THEN slice(ergo_tree, Len(P2PK_ERGOTREE_PREFIX), Len(ergo_tree))
            ELSE IF address_type = "P2SH"
            THEN slice(ergo_tree, Len(P2SH_ERGOTREE_PREFIX),
                       Len(P2SH_ERGOTREE_PREFIX) + P2SH_HASH_LENGTH)
            ELSE Ok(ergo_tree)
    IN  IF body.tag # "Ok" THEN body
        ELSE encode_address(network, address_type, body.val)

tree_to_base58(ergo_tree, network) ==
    IF ergo_tree = <<>> THEN Err("InvalidErgoTree")
    ELSE LET address_type == get_ergo_tree_type(ergo_tree)
             body ==
                 IF address_type = "P2PK"
                 THEN slice(ergo_tree, Len(P2PK_ERGOTREE_PREFIX), Len(ergo_tree))
                 ELSE IF address_type = "P2SH"
                 THEN slice(ergo_tree, Len(P2SH_ERGOTREE_PREFIX),
                            Len(P2SH_ERGOTREE_PREFIX) + P2SH_HASH_LENGTH)
                 ELSE Ok(ergo_tree)
         IN  IF body.tag # "Ok" THEN body
             ELSE encode_address(network, address_type, body.val)

\* Ok(ErgoAddress::decode(encoded)?.into_ergo_tree())
base58_to_tree(text) ==
    LET r == ErgoAddress_decode(text)
    IN  IF r.tag = "Ok" THEN Ok(r.val.ergo_tree) ELSE r

-----------------------------------------------------------------------------
(* Inputs.  The bounds are MaxDataLen, MaxBodyLen and AlterEdge; the other  *)
(* definitions name the byte values and the vectors of the repository's     *)
(* tests that the runs are drawn from.                                      *)

MaxDataLen == 3
MaxBodyLen == 2
AlterEdge == 2
MaxTextLen == 3
MaxSlack == 1

RECURSIVE SeqsUpTo(_, _)
SeqsUpTo(S, n) ==
    IF n = 0 THEN {<<>>}
    ELSE LET shorter == SeqsUpTo(S, n - 1)
         IN  shorter \cup {Append(s, x) : s \in {t \in shorter : Len(t) = n - 1}, x \in S}

\* base58.rs, test_known_vectors: b"Hello World!" and the 43-byte vector
HelloWorld == <<72, 101, 108, 108, 111, 32, 87, 111, 114, 108, 100, 33>>
AlphabetVector ==
    <<0, 1, 17, 211, 142, 95, 201, 7, 31, 252, 210, 11,
      74, 118, 60, 201, 174, 79, 37, 43, 180, 228, 143, 214,
      106, 131, 94, 37, 42, 218, 147, 255, 72, 13, 109, 212,
      61, 198, 42, 100, 17, 85, 165>>

\* mod.rs, test_decode_p2pk_mainnet / test_decode_p2sh: the public key and
\* the script hash of the two addresses
PubKey ==
    <<2, 120, 1, 30, 192, 207, 95, 235, 146, 214, 26, 219,
      81, 220, 183, 88, 118, 98, 122, 206, 111, 217, 68, 106,
      180, 202, 188, 83, 19, 171, 123, 57, 167>>
ScriptHash ==
    <<253, 83, 196, 62, 187, 200, 181, 197, 63, 44, 207, 39,
      13, 27, 194, 39, 64, 235, 56, 85, 70, 63, 95, 174>>

B58Bytes == {0, 1, 57, 58, 255}
\* the largest numbers of 8, 16 and 32 bytes, the last after two zero bytes too
MaxedBytes(n) == [i \in 1..n |-> 255] \o <<>>
DataInputs ==
    SeqsUpTo(B58Bytes, MaxDataLen)
        \cup {HelloWorld, AlphabetVector, Zeroes(32), <<0, 0, 40, 127, 180, 205>>}
        \cup {MaxedBytes(8), MaxedBytes(16), MaxedBytes(32), <<0, 0>> \o MaxedBytes(32)}

\* base58.rs, test_known_vectors: "2NEpo7TZRRrLZSi2U" and "11233QC4"
HelloWorldText ==
    <<50, 78, 69, 112, 111, 55, 84, 90, 82, 82, 114, 76, 90, 83, 105, 50, 85>>
ZerosVectorText == <<49, 49, 50, 51, 51, 81, 67, 52>>

\* base58.rs, test_invalid_character: "O", "I", "l", "abc0def"; and texts with
\* characters of two, three and four code units:
\* "9é4", "€", "z😀", "é0", "0é", "1l", "11é", "2😀O"
InvalidTexts ==
    {<<79>>, <<73>>, <<108>>, <<97, 98, 99, 48, 100, 101, 102>>,
     <<57, 195, 169, 52>>, <<226, 130, 172>>, <<122, 240, 159, 152, 128>>,
     <<195, 169, 48>>, <<48, 195, 169>>, <<49, 108>>, <<49, 49, 195, 169>>,
     <<50, 240, 159, 152, 128, 79>>}

\* '1', '2', 'z' and '0'
B58TextChars == {49, 50, 122, 48}
\* the largest numbers of 11, 22 and 44 digits, the last after two '1' too
MaxedText(n) == [i \in 1..n |-> 122] \o <<>>
Base58Texts ==
    SeqsUpTo(B58TextChars, MaxTextLen)
        \cup InvalidTexts
        \cup {HelloWorldText, ZerosVectorText, ALPHABET}
        \cup {MaxedText(11), MaxedText(22), MaxedText(44), <<49, 49>> \o MaxedText(44)}

\* What a reused buffer holds before the call: zeros, 0xFF, or mixed bytes.
BufFills == 0..2
BufFill(fill, i) == IF fill = 0 THEN 0 ELSE IF fill = 1 THEN 255 ELSE (i * 37 + 11) % 256

\* base58.rs, test_decode_into: let mut buf = [0u8; 64]
TestBufLen == 64

TreeBytes == {0, 205}
WrongPrefix(tree) == [tree EXCEPT ![2] = 9]
WrongSuffix(tree) == [tree EXCEPT ![Len(tree)] = 2]
P2pkTree == P2PK_ERGOTREE_PREFIX \o PubKey
P2shTree == P2SH_ERGOTREE_PREFIX \o ScriptHash \o P2SH_ERGOTREE_SUFFIX
TreeInputs ==
    SeqsUpTo(TreeBytes, MaxBodyLen)
        \cup {P2pkTree, WrongPrefix(P2pkTree), Append(P2pkTree, 0), P2PK_ERGOTREE_PREFIX,
              P2shTree, WrongPrefix(P2shTree), WrongSuffix(P2shTree),
              P2SH_ERGOTREE_PREFIX \o P2SH_ERGOTREE_SUFFIX}

\* Header bytes: the six the encoder writes, type nibbles 0 and 4 that no
\* type has, and network nibbles 2 and 15 that no network has.
Heads == {1, 2, 3, 17, 18, 19, 0, 4, 20, 33, 35, 243}
Bodies == SeqsUpTo(TreeBytes, MaxBodyLen) \cup {PubKey, ScriptHash, P2pkTree, P2shTree}

\* header, body and the four checksum bytes: those of the digest, or those
\* with the last one changed
Packed(head, body, good) ==
    LET sum == SubSeq(blake2b256(<<head>> \o body), 1, CHECKSUM_LENGTH)
    IN  <<head>> \o body \o (IF good THEN sum ELSE [sum EXCEPT ![4] = (@ + 1) % 256])

ShortPacked == {<<1>>, <<4>>, <<3, 0>>, <<3, 0, 0, 0>>, <<0, 0, 0, 0>>, <<19, 1, 2, 3>>}

\* "9eBy0", "l", "1O3", "3I", "9é4", "€"
MalformedTexts ==
    {<<57, 101, 66, 121, 48>>, <<108>>, <<49, 79, 51>>, <<51, 73>>,
     <<57, 195, 169, 52>>, <<226, 130, 172>>}

TextInputs ==
    {bs58_encode(Packed(h, b, g)).val : h \in Heads, b \in Bodies, g \in BOOLEAN}
        \cup {bs58_encode(b).val : b \in ShortPacked}
        \cup MalformedTexts
        \cup {<<>>}

\* the characters a replacement writes: '1', '2', 's', 'z' and '0'
AlterChars == {49, 50, 115, 122, 48}
AlterPositions(text) ==
    {p \in 1..Len(text) : p <= AlterEdge \/ p > Len(text) - AlterEdge}

NotAltered == [text |-> <<>>, bytes |-> <<>>, pos |-> 0]

-----------------------------------------------------------------------------
(* Base58 runs: encode the input bytes, then decode the text.               *)

WatcherOff ==
    /\ spawn_pc = "off"
    /\ task_pc = "off"
    /\ swap = NotCalled
    /\ last_update = 0
    /\ r_info = NotCalled
    /\ resp = NotCalled
    /\ r_snapshot = NotCalled
    /\ node_time = 0
    /\ node_pool = <<>>
    /\ info_up = TRUE
    /\ pool_up = TRUE

AddrOff ==
    /\ pc = "off"
    /\ encoded = <<>>
    /\ tree_in = <<>>
    /\ network_in = "Mainnet"
    /\ dec_bytes = NotCalled
    /\ address = NotCalled
    /\ r_unsafe = NotCalled
    /\ r_validate = NotCalled
    /\ r_network = NotCalled
    /\ r_type = NotCalled
    /\ a_enc = NotCalled
    /\ a_dec = NotCalled
    /\ orig = NotAltered
    /\ net_b = "Mainnet"
    /\ a_encn = NotCalled
    /\ a_decn = NotCalled
    /\ a_valid = NotCalled
    /\ r_pubkey = NotCalled
    /\ r_t2b = NotCalled
    /\ r_b2t = NotCalled
    /\ u_enc = NotCalled
    /\ u_pubkey = NotCalled

B58Off ==
    /\ b58_pc = "off"
    /\ b58_data = <<>>
    /\ b58_text = NotCalled
    /\ b58_back = NotCalled
    /\ b58_buf = <<>>
    /\ b58_into = NotCalled
    /\ b58_again = NotCalled

\* a run that starts from bytes
InitBase58Bytes ==
    /\ run = "base58"
    /\ b58_pc = "encode"
    /\ b58_data \in DataInputs
    /\ b58_text = NotCalled

\* a run that starts from a text
InitBase58Text ==
    /\ run = "base58text"
    /\ b58_pc = "decode"
    /\ b58_data = <<>>
    /\ b58_text \in {Ok(t) : t \in Base58Texts}

InitBase58 ==
    /\ InitBase58Bytes \/ InitBase58Text
    /\ WatcherOff
    /\ b58_back = NotCalled
    /\ b58_buf = <<>>
    /\ b58_into = NotCalled
    /\ b58_again = NotCalled
    /\ AddrOff

\* let encoded = encode(data);
Base58Encode ==
    /\ b58_pc = "encode"
    /\ b58_text' = encode(b58_data)
    /\ b58_pc' = IF b58_text'.tag = "Ok" THEN "decode" ELSE "done"
    /\ UNCHANGED <<run, b58_data, b58_back, b58_buf, b58_into, b58_again, addr_vars, watcher_vars>>

\* let decoded = decode(&encoded);
Base58Decode ==
    /\ b58_pc = "decode"
    /\ b58_back' = decode(b58_text.val)
    /\ b58_pc' = "decode_into"
    /\ UNCHANGED <<run, b58_data, b58_text, b58_buf, b58_into, b58_again, addr_vars, watcher_vars>>

\* let len = decode_into(&encoded, &mut buf); the buffer is as long as the
\* decoded bytes (as the text, when decode failed) plus some slack, or the 64
\* bytes of test_decode_into, and holds anything.
Base58DecodeInto ==
    /\ b58_pc = "decode_into"
    /\ \E fill \in BufFills,
          len \in {(IF b58_back.tag = "Ok" THEN Len(b58_back.val) ELSE Len(b58_text.val)) + k :
                      k \in 0..MaxSlack} \cup {TestBufLen} :
          b58_buf' = [i \in 1..len |-> BufFill(fill, i)] \o <<>>
    /\ b58_into' = decode_into(b58_text.val, b58_buf')
    /\ b58_pc' = IF b58_back.tag = "Ok" THEN "reencode" ELSE "done"
    /\ UNCHANGED <<run, b58_data, b58_text, b58_back, b58_again, addr_vars, watcher_vars>>

\* encode(&decoded)
Base58Reencode ==
    /\ b58_pc = "reencode"
    /\ b58_again' = encode(b58_back.val)
    /\ b58_pc' = "done"
    /\ UNCHANGED <<run, b58_data, b58_text, b58_back, b58_buf, b58_into, addr_vars, watcher_vars>>

NextBase58 == Base58Encode \/ Base58Decode \/ Base58DecodeInto \/ Base58Reencode

SpecBase58 == InitBase58 /\ [][NextBase58]_vars

-----------------------------------------------------------------------------
(* Address runs.  A text run hands one text to decode, decode_unsafe,       *)
(* validate, get_network_type and get_address_type, re-encodes the decoded  *)
(* address and decodes that again; then one character of an accepted text   *)
(* may be replaced and decode and decode_unsafe are called on the result.   *)
(* A tree run builds the address with from_ergo_tree, encodes it and        *)
(* decodes the text.                                                        *)

Results0 ==
    /\ dec_bytes = NotCalled
    /\ address = NotCalled
    /\ r_unsafe = NotCalled
    /\ r_validate = NotCalled
    /\ r_network = NotCalled
    /\ r_type = NotCalled
    /\ a_enc = NotCalled
    /\ a_dec = NotCalled
    /\ orig = NotAltered
    /\ net_b = "Mainnet"
    /\ a_encn = NotCalled
    /\ a_decn = NotCalled
    /\ a_valid = NotCalled
    /\ r_pubkey = NotCalled
    /\ r_t2b = NotCalled
    /\ r_b2t = NotCalled
    /\ u_enc = NotCalled
    /\ u_pubkey = NotCalled

InitText ==
    /\ run = "text"
    /\ pc = "decode"
    /\ encoded \in TextInputs
    /\ tree_in = <<>>
    /\ network_in = "Mainnet"
    /\ Results0

InitTree ==
    /\ run = "tree"
    /\ pc = "from_ergo_tree"
    /\ encoded = <<>>
    /\ tree_in \in TreeInputs
    /\ network_in \in Networks
    /\ Results0

Init == B58Off /\ WatcherOff /\ (InitText \/ InitTree)

\* ErgoAddress::from_ergo_tree(ergo_tree, network)
FromErgoTree ==
    /\ pc = "from_ergo_tree"
    /\ address' = from_ergo_tree(tree_in, network_in)
    /\ pc' = "encode"
    /\ UNCHANGED <<encoded, tree_in, network_in, dec_bytes, r_unsafe, r_validate,
                   r_network, r_type, a_enc, a_dec, orig, more_vars, run, b58_vars, watcher_vars>>

\* ErgoAddress::decode(encoded)
Decode ==
    /\ pc = "decode"
    /\ dec_bytes' = bs58_decode(encoded)
    /\ address' = decode_bytes(dec_bytes')
    /\ pc' = "decode_unsafe"
    /\ UNCHANGED <<encoded, tree_in, network_in, r_unsafe, r_validate,
                   r_network, r_type, a_enc, a_dec, orig, more_vars, run, b58_vars, watcher_vars>>

\* ErgoAddress::decode_unsafe(encoded)
DecodeUnsafe ==
    /\ pc = "decode_unsafe"
    /\ r_unsafe' = ErgoAddress_decode_unsafe(encoded)
    /\ pc' = IF r_unsafe'.tag = "Ok" THEN "encode_unsafe"
             ELSE IF orig = NotAltered THEN "validate" ELSE "done"
    /\ UNCHANGED <<encoded, tree_in, network_in, dec_bytes, address, r_validate,
                   r_network, r_type, a_enc, a_dec, orig, more_vars, run, b58_vars, watcher_vars>>

\* ErgoAddress::decode_unsafe(encoded)?.encode()
EncodeUnsafe ==
    /\ pc = "encode_unsafe"
    /\ u_enc' = ErgoAddress_encode(r_unsafe.val)
    /\ pc' = "get_public_key_unsafe"
    /\ UNCHANGED <<encoded, tree_in, network_in, dec_bytes, address, r_unsafe, r_validate,
                   r_network, r_type, a_enc, a_dec, orig, net_b, a_encn, a_decn, a_valid,
                   r_pubkey, r_t2b, r_b2t, u_pubkey, run, b58_vars, watcher_vars>>

\* ErgoAddress::decode_unsafe(encoded)?.get_public_key()
GetPublicKeyUnsafe ==
    /\ pc = "get_public_key_unsafe"
    /\ u_pubkey' = get_public_key(r_unsafe.val)
    /\ pc' = IF orig = NotAltered THEN "validate" ELSE "done"
    /\ UNCHANGED <<encoded, tree_in, network_in, dec_bytes, address, r_unsafe, r_validate,
                   r_network, r_type, a_enc, a_dec, orig, net_b, a_encn, a_decn, a_valid,
                   r_pubkey, r_t2b, r_b2t, u_enc, run, b58_vars, watcher_vars>>

\* ErgoAddress::validate(encoded)
Validate ==
    /\ pc = "validate"
    /\ r_validate' = ErgoAddress_validate(encoded)
    /\ pc' = "get_network_type"
    /\ UNCHANGED <<encoded, tree_in, network_in, dec_bytes, address, r_unsafe,
                   r_network, r_type, a_enc, a_dec, orig, more_vars, run, b58_vars, watcher_vars>>

\* ErgoAddress::get_network_type(encoded)
GetNetworkType ==
    /\ pc = "get_network_type"
    /\ r_network' = get_network_type(encoded)
    /\ pc' = "get_address_type"
    /\ UNCHANGED <<encoded, tree_in, network_in, dec_bytes, address, r_unsafe,
                   r_validate, r_type, a_enc, a_dec, orig, more_vars, run, b58_vars, watcher_vars>>

\* ErgoAddress::get_address_type(encoded)
GetAddressType ==
    /\ pc = "get_address_type"
    /\ r_type' = get_address_type(encoded)
    /\ pc' = "base58_to_tree"
    /\ UNCHANGED <<encoded, tree_in, network_in, dec_bytes, address, r_unsafe,
                   r_validate, r_network, a_enc, a_dec, orig, more_vars, run, b58_vars, watcher_vars>>

\* address.encode()
Encode ==
    /\ pc = "encode"
    /\ a_enc' = ErgoAddress_encode(address.val)
    /\ pc' = IF a_enc'.tag = "Ok" THEN "redecode" ELSE "done"
    /\ UNCHANGED <<encoded, tree_in, network_in, dec_bytes, address, r_unsafe,
                   r_validate, r_network, r_type, a_dec, orig, more_vars, run, b58_vars, watcher_vars>>

\* ErgoAddress::decode(&address.encode())
Redecode ==
    /\ pc = "redecode"
    /\ a_dec' = ErgoAddress_decode(a_enc.val)
    /\ pc' = "encode_for_network"
    /\ UNCHANGED <<encoded, tree_in, network_in, dec_bytes, address, r_unsafe,
                   r_validate, r_network, r_type, a_enc, orig, more_vars, run, b58_vars, watcher_vars>>

\* address.encode_for_network(network)
EncodeForNetwork ==
    /\ pc = "encode_for_network"
    /\ \E network \in Networks :
          /\ net_b' = network
          /\ a_encn' = encode_for_network(address.val, network)
    /\ pc' = IF a_encn'.tag = "Ok" THEN "redecode_for_network" ELSE "done"
    /\ UNCHANGED <<encoded, tree_in, network_in, dec_bytes, address, r_unsafe, r_validate,
                   r_network, r_type, a_enc, a_dec, orig, a_decn, a_valid, r_pubkey,
                   r_t2b, r_b2t, u_enc, u_pubkey, run, b58_vars, watcher_vars>>

\* ErgoAddress::decode(&address.encode_for_network(network))
RedecodeForNetwork ==
    /\ pc = "redecode_for_network"
    /\ a_decn' = ErgoAddress_decode(a_encn.val)
    /\ pc' = "validate_encoded"
    /\ UNCHANGED <<encoded, tree_in, network_in, dec_bytes, address, r_unsafe, r_validate,
                   r_network, r_type, a_enc, a_dec, orig, net_b, a_encn, a_valid, r_pubkey,
                   r_t2b, r_b2t, u_enc, u_pubkey, run, b58_vars, watcher_vars>>

\* ErgoAddress::validate(&address.encode_for_network(network))
ValidateEncoded ==
    /\ pc = "validate_encoded"
    /\ a_valid' = ErgoAddress_validate(a_encn.val)
    /\ pc' = "get_public_key"
    /\ UNCHANGED <<encoded, tree_in, network_in, dec_bytes, address, r_unsafe, r_validate,
                   r_network, r_type, a_enc, a_dec, orig, net_b, a_encn, a_decn, r_pubkey,
                   r_t2b, r_b2t, u_enc, u_pubkey, run, b58_vars, watcher_vars>>

\* address.get_public_key()
GetPublicKey ==
    /\ pc = "get_public_key"
    /\ r_pubkey' = get_public_key(address.val)
    /\ pc' = IF run = "tree" THEN "tree_to_base58" ELSE "done"
    /\ UNCHANGED <<encoded, tree_in, network_in, dec_bytes, address, r_unsafe, r_validate,
                   r_network, r_type, a_enc, a_dec, orig, net_b, a_encn, a_decn, a_valid,
                   r_t2b, r_b2t, u_enc, u_pubkey, run, b58_vars, watcher_vars>>

\* tree_to_base58(&ergo_tree, network)
TreeToBase58 ==
    /\ pc = "tree_to_base58"
    /\ r_t2b' = tree_to_base58(tree_in, network_in)
    /\ pc' = IF r_t2b'.tag = "Ok" THEN "base58_to_tree" ELSE "done"
    /\ UNCHANGED <<encoded, tree_in, network_in, dec_bytes, address, r_unsafe, r_validate,
                   r_network, r_type, a_enc, a_dec, orig, net_b, a_encn, a_decn, a_valid,
                   r_pubkey, r_b2t, u_enc, u_pubkey, run, b58_vars, watcher_vars>>

\* base58_to_tree(encoded) in a text run,
\* base58_to_tree(&tree_to_base58(&ergo_tree, network)) in a tree run
Base58ToTree ==
    /\ pc = "base58_to_tree"
    /\ r_b2t' = base58_to_tree(IF run = "text" THEN encoded ELSE r_t2b.val)
    /\ pc' = IF run = "text" /\ address.tag = "Ok" THEN "encode" ELSE "done"
    /\ UNCHANGED <<encoded, tree_in, network_in, dec_bytes, address, r_unsafe, r_validate,
                   r_network, r_type, a_enc, a_dec, orig, net_b, a_encn, a_decn, a_valid,
                   r_pubkey, r_t2b, u_enc, u_pubkey, run, b58_vars, watcher_vars>>

\* The environment replaces one character of a text that decode accepted
\* (mod.rs, test_invalid_checksum: the last 'r' becomes 's'); the calls start
\* over on the altered text.
ReplaceChar ==
    /\ pc = "done"
    /\ run = "text"
    /\ address.tag = "Ok"
    /\ orig = NotAltered
    /\ \E pos \in AlterPositions(encoded), c \in AlterChars :
          /\ c # encoded[pos]
          /\ encoded' = [encoded EXCEPT ![pos] = c]
          /\ orig' = [text |-> encoded, bytes |-> dec_bytes.val, pos |-> pos]
    /\ dec_bytes' = NotCalled
    /\ address' = NotCalled
    /\ r_unsafe' = NotCalled
    /\ r_validate' = NotCalled
    /\ r_network' = NotCalled
    /\ r_type' = NotCalled
    /\ a_enc' = NotCalled
    /\ a_dec' = NotCalled
    /\ a_encn' = NotCalled
    /\ a_decn' = NotCalled
    /\ a_valid' = NotCalled
    /\ r_pubkey' = NotCalled
    /\ r_b2t' = NotCalled
    /\ u_enc' = NotCalled
    /\ u_pubkey' = NotCalled
    /\ pc' = "decode"
    /\ UNCHANGED <<tree_in, network_in, net_b, r_t2b, run, b58_vars, watcher_vars>>

Next ==
    \/ FromErgoTree
    \/ Decode
    \/ DecodeUnsafe
    \/ EncodeUnsafe
    \/ GetPublicKeyUnsafe
    \/ Validate
    \/ GetNetworkType
    \/ GetAddressType
    \/ Encode
    \/ Redecode
    \/ EncodeForNetwork
    \/ RedecodeForNetwork
    \/ ValidateEncoded
    \/ GetPublicKey
    \/ TreeToBase58
    \/ Base58ToTree
    \/ ReplaceChar

Spec == Init /\ [][Next]_vars

-----------------------------------------------------------------------------
(* The mempool watcher: watcher::spawn, the task running mempool::start and *)
(* the node it polls.  A timestamp is a natural number (u64, only compared),*)
(* a HashDigest and a UTxO are small naturals standing for their content.   *)

\* clients/node.rs: what a request returns when the node does not answer or
\* its reply does not parse
NodeError == Err("HttpError")

\* Option::expect on None
ExpectFailed == [tag |-> "Panic", val |-> <<>>, err |-> "UTxO should be present", ch |-> 0]

\* clients/node.rs: MempoolTransactionInput and MempoolTransactionResponse
MempoolTransactionInput(utxo, spending_proof) ==
    [utxo |-> utxo, spending_proof |-> spending_proof]
MempoolTransactionResponse(id, inputs, outputs) ==
    [id |-> id, inputs |-> inputs, outputs |-> outputs]

\* types/ergo.rs: TransactionInput and UnconfirmedTransaction
TransactionInput(utxo, spending_proof) ==
    [utxo |-> utxo, spending_proof |-> spending_proof]
UnconfirmedTransaction(id, inputs, outputs) ==
    [id |-> id, inputs |-> inputs, outputs |-> outputs]

\* watcher/mempool.rs: MempoolSnapshot and its derived Default
MempoolSnapshot(updated, transactions) ==
    [last_update |-> updated, transactions |-> transactions]
MempoolSnapshot_default == MempoolSnapshot(0, <<>>)

\* Arc<ArcSwap<MempoolSnapshot>>: the snapshot the swap points to
ArcSwap(snapshot) == [tag |-> "ArcSwap", val |-> snapshot, err |-> "none", ch |-> 0]

\* impl From<MempoolTransactionResponse> for UnconfirmedTransaction: every
\* input's utxo goes through expect
UnconfirmedTransaction_from(mempool_input) ==
    LET ins == mempool_input.inputs
    IN  IF \E i \in 1..Len(ins) : ins[i].utxo.tag # "Some"
        THEN ExpectFailed
        ELSE Ok(UnconfirmedTransaction(
                    mempool_input.id,
                    [i \in 1..Len(ins) |->
                        TransactionInput(ins[i].utxo.val, ins[i].spending_proof)] \o <<>>,
                    mempool_input.outputs))

\* .map(|utx| utx.into()).collect(): a panic of one conversion is the call's
collect_into(kept) ==
    LET conv == [k \in 1..Len(kept) |-> UnconfirmedTransaction_from(kept[k])]
    IN  IF \E k \in 1..Len(kept) : conv[k].tag = "Panic"
        THEN ExpectFailed
        ELSE Ok([k \in 1..Len(kept) |-> conv[k].val] \o <<>>)

\* get_mempool_snapshot without the filter of line 96
get_mempool_snapshot_unfiltered(up, body) ==
    IF ~up THEN NodeError ELSE collect_into(body)

\* NodeClient::get_mempool_snapshot: up and body are the node's reply
get_mempool_snapshot(up, body) ==
    IF ~up THEN NodeError
    ELSE collect_into(SelectSeq(body,
            LAMBDA utx : \A i \in 1..Len(utx.inputs) : utx.inputs[i].utxo.tag = "Some"))

\* NodeClient::get_last_mempool_update_timestamp: get_info()?.last_mempool_update
get_last_mempool_update_timestamp(up, last_mempool_update) ==
    IF up THEN Ok(last_mempool_update) ELSE NodeError

\* the first arm's pattern with >= for >
has_update_or_equal(r, last) == r.tag = "Ok" /\ r.val >= last

\* start, line 22: the pattern and guard "Ok(updated) if updated > last_update"
has_update(r, last) == r.tag = "Ok" /\ r.val > last

\* the inner match with "?" on the snapshot request
snapshot_arm_return_on_error(r, updated, last, sw) ==
    CASE r.tag = "Ok" ->
            [last_update |-> updated,
             swap |-> ArcSwap(MempoolSnapshot(updated, r.val)),
             next |-> "sleep"]
      [] r.tag = "Err" -> [last_update |-> last, swap |-> sw, next |-> "returned"]
      [] OTHER -> [last_update |-> last, swap |-> sw, next |-> "panicked"]

\* the inner match with last_update assigned before the snapshot request
snapshot_arm_advance_on_error(r, updated, last, sw) ==
    CASE r.tag = "Ok" ->
            [last_update |-> updated,
             swap |-> ArcSwap(MempoolSnapshot(updated, r.val)),
             next |-> "sleep"]
      [] r.tag = "Err" -> [last_update |-> updated, swap |-> sw, next |-> "sleep"]
      [] OTHER -> [last_update |-> last, swap |-> sw, next |-> "panicked"]

\* start, lines 22-32, the inner match: the loop's last_update, the swap and
\* where the task goes.  A panic inside the request ends the task.
snapshot_arm(r, updated, last, sw) ==
    CASE r.tag = "Ok" ->
            [last_update |-> updated,
             swap |-> ArcSwap(MempoolSnapshot(updated, r.val)),
             next |-> "sleep"]
      [] r.tag = "Err" -> [last_update |-> last, swap |-> sw, next |-> "sleep"]
      [] OTHER -> [last_update |-> last, swap |-> sw, next |-> "panicked"]

\* a JoinHandle resolves when its task has ended
task_finished(at) == at \in {"returned", "panicked"}

\* The node's replies: timestamps 0..MaxTime, and pools of transactions with
\* up to MaxInputs inputs each, an input with its UTxO or without.
MaxTime == 2
MaxInputs == 1
Times == 0..MaxTime
InputShapes ==
    SeqsUpTo({MempoolTransactionInput(Some(1), 7), MempoolTransactionInput(None, 7)},
             MaxInputs)
Responses(id) == {MempoolTransactionResponse(id, ins, <<id>>) : ins \in InputShapes}
FullTx(id) ==
    MempoolTransactionResponse(id,
        <<MempoolTransactionInput(Some(1), 7), MempoolTransactionInput(Some(2), 8)>>, <<id>>)
PartTx(id) ==
    MempoolTransactionResponse(id,
        <<MempoolTransactionInput(Some(1), 7), MempoolTransactionInput(None, 8)>>, <<id>>)
\* the empty pool, every single transaction, and pools where transactions
\* without a UTxO stand before, between and after the others
Pools ==
    {<<>>}
        \cup {<<t>> : t \in Responses(1)}
        \cup {<<FullTx(3), PartTx(2), FullTx(1)>>,
              <<PartTx(1), FullTx(2), PartTx(3)>>}

InitWatcher ==
    /\ run = "watcher"
    /\ B58Off
    /\ AddrOff
    /\ spawn_pc = "call"
    /\ task_pc = "unspawned"
    /\ swap = NotCalled
    /\ last_update = 0
    /\ r_info = NotCalled
    /\ resp = NotCalled
    /\ r_snapshot = NotCalled
    /\ node_time \in Times
    /\ node_pool \in Pools
    /\ info_up \in BOOLEAN
    /\ pool_up \in BOOLEAN

\* watcher::spawn, lines 11-14: the swap with the default snapshot, and the
\* task that runs start (its last_update = 0)
SpawnCall ==
    /\ spawn_pc = "call"
    /\ swap' = ArcSwap(MempoolSnapshot_default)
    /\ task_pc' = "get_timestamp"
    /\ last_update' = 0
    /\ spawn_pc' = "join"
    /\ UNCHANGED <<run, b58_vars, addr_vars, r_info, resp, r_snapshot, node_vars>>

\* watcher::spawn, line 14, ".await" on the JoinHandle of tokio::spawn, and
\* line 16, Ok(mempool_snapshot): the caller goes on once the task has ended
JoinHandleAwait ==
    /\ spawn_pc \in {"join", "pending"}
    /\ spawn_pc' = IF task_finished(task_pc) THEN "returned" ELSE "pending"
    /\ UNCHANGED <<run, b58_vars, addr_vars, task_pc, swap, last_update, r_info, resp,
                   r_snapshot, node_vars>>

\* start, line 21: node.get_last_mempool_update_timestamp().await and the
\* outer match
PollTimestamp ==
    /\ task_pc = "get_timestamp"
    /\ r_info' = get_last_mempool_update_timestamp(info_up, node_time)
    /\ task_pc' = IF has_update(r_info', last_update) THEN "get_snapshot" ELSE "sleep"
    /\ UNCHANGED <<run, b58_vars, addr_vars, spawn_pc, swap, last_update, resp, r_snapshot,
                   node_vars>>

\* start, lines 22-32: node.get_mempool_snapshot().await and the inner match
FetchSnapshot ==
    /\ task_pc = "get_snapshot"
    /\ resp' = IF pool_up THEN Ok(node_pool) ELSE NodeError
    /\ r_snapshot' = get_mempool_snapshot(pool_up, node_pool)
    /\ LET arm == snapshot_arm(r_snapshot', r_info.val, last_update, swap)
       IN  /\ last_update' = arm.last_update
           /\ swap' = arm.swap
           /\ task_pc' = arm.next
    /\ UNCHANGED <<run, b58_vars, addr_vars, spawn_pc, r_info, node_vars>>

\* start, line 37: sleep(1 s), then the next iteration with new temporaries
Sleep ==
    /\ task_pc = "sleep"
    /\ task_pc' = "get_timestamp"
    /\ r_info' = NotCalled
    /\ resp' = NotCalled
    /\ r_snapshot' = NotCalled
    /\ UNCHANGED <<run, b58_vars, addr_vars, spawn_pc, swap, last_update, node_vars>>

\* the node's mempool changes: any timestamp, any pool.  A request reads
\* one of the two, so a change of both is a change of one after the other.
NodeUpdate ==
    /\ run = "watcher"
    /\ \E t \in Times, pool \in Pools :
        /\ (t # node_time /\ pool = node_pool) \/ (t = node_time /\ pool # node_pool)
        /\ node_time' = t
        /\ node_pool' = pool
    /\ UNCHANGED <<run, b58_vars, addr_vars, spawn_pc, task_pc, swap, last_update, r_info,
                   resp, r_snapshot, info_up, pool_up>>

\* a request of the node starts or stops failing
NodeFault ==
    /\ run = "watcher"
    /\ \E i \in BOOLEAN, u \in BOOLEAN :
        /\ (i # info_up /\ u = pool_up) \/ (i = info_up /\ u # pool_up)
        /\ info_up' = i
        /\ pool_up' = u
    /\ UNCHANGED <<run, b58_vars, addr_vars, spawn_pc, task_pc, swap, last_update, r_info,
                   resp, r_snapshot, node_time, node_pool>>

NextWatcher ==
    \/ SpawnCall
    \/ JoinHandleAwait
    \/ PollTimestamp
    \/ FetchSnapshot
    \/ Sleep
    \/ NodeUpdate
    \/ NodeFault

SpecWatcher == InitWatcher /\ [][NextWatcher]_vars

\* The runtime runs the spawned task and the caller whenever they can go on,
\* and the timer of sleep fires.  Nothing is assumed of the node.
SpecWatcherFair ==
    /\ SpecWatcher
    /\ WF_vars(SpawnCall)
    /\ WF_vars(JoinHandleAwait)
    /\ WF_vars(PollTimestamp \/ FetchSnapshot \/ Sleep)

-----------------------------------------------------------------------------
(* Properties *)

AlphabetChars == {ALPHABET[i] : i \in 1..58}
IsBase58Text(text) == \A i \in 1..Len(text) : text[i] \in AlphabetChars

\* The parts of decoded address bytes, read off the byte string itself.
HeadOf(bs) == bs[1]
BodyOf(bs) == SubSeq(bs, 2, Len(bs) - 4)
SumOf(bs) == SubSeq(bs, Len(bs) - 3, Len(bs))
TypeNibble(bs) == bs[1] % 16
NetNibble(bs) == bs[1] \div 16
SumMatches(bs) == SumOf(bs) = SubSeq(blake2b256(<<HeadOf(bs)>> \o BodyOf(bs)), 1, 4)
BodyFits(bs) ==
    /\ TypeNibble(bs) = 1 => Len(BodyOf(bs)) = 33
    /\ TypeNibble(bs) = 2 => Len(BodyOf(bs)) = 24

\* C1: base58 round trip.  When a base58 run is done, encode succeeded and
\* decode of the text it returned is Ok with exactly the input bytes, for
\* every input (empty, all zero and leading zeros included).
C1_Base58RoundTrip ==
    (run = "base58" /\ b58_pc = "done") => b58_text.tag = "Ok" /\ b58_back = Ok(b58_data)

C1_Witness ==
    /\ b58_pc = "done"
    /\ b58_data = <<0, 0, 40, 127, 180, 205>>
    /\ b58_text = Ok(<<49, 49, 50, 51, 51, 81, 67, 52>>)
    /\ b58_back.tag = "Ok"

\* C2: address round trip.  For an address built by from_ergo_tree or by a
\* successful decode, encode succeeds and decode of the text it returns is Ok
\* with an address equal in tree bytes, network and address type.
C2_AddressRoundTrip ==
    (pc = "done" /\ orig = NotAltered /\ address.tag = "Ok") =>
        /\ a_enc.tag = "Ok"
        /\ a_dec.tag = "Ok"
        /\ a_dec.val.ergo_tree = address.val.ergo_tree
        /\ a_dec.val.network = address.val.network
        /\ a_dec.val.address_type = address.val.address_type

C2_Witness ==
    /\ pc = "done"
    /\ tree_in = P2shTree
    /\ network_in = "Testnet"
    /\ a_dec.tag = "Ok"
    /\ a_dec.val.address_type = "P2SH"
    /\ a_dec.val.network = "Testnet"

\* C3: decode returns the error of the first check that fails, in the order
\* base58 decoding, decoded length < 5, type nibble, checksum, body length;
\* it returns Ok when none fails.
C3_DecodeCheckOrder ==
    (run = "text" /\ address # NotCalled) =>
        IF ~IsBase58Text(encoded) THEN address = Err("Base58DecodeError")
        ELSE /\ dec_bytes.tag = "Ok"
             /\ LET bs == dec_bytes.val
                IN  IF Len(bs) < 5 THEN address = Err("AddressTooShort")
                    ELSE IF TypeNibble(bs) \notin {1, 2, 3}
                    THEN address = Err("InvalidAddressType")
                    ELSE IF ~SumMatches(bs) THEN address = Err("InvalidChecksum")
                    ELSE IF ~BodyFits(bs) THEN address = Err("InvalidErgoTree")
                    ELSE address.tag = "Ok"

\* a wrong checksum and a wrong body length give InvalidChecksum
C3_Witness ==
    /\ address = Err("InvalidChecksum")
    /\ TypeNibble(dec_bytes.val) = 1
    /\ Len(BodyOf(dec_bytes.val)) # 33

\* C4: when decode succeeds on header, body, checksum, the tree is 00 08 cd
\* and the body (36 bytes) for P2PK, the 17-byte prefix, the body and
\* d4 08 01 (44 bytes) for P2SH, the body for P2S, and the network and the
\* type are those of the header byte.
C4_DecodedTree ==
    (run = "text" /\ address.tag = "Ok") =>
        LET bs == dec_bytes.val
            a == address.val
        IN  /\ a.address_type =
                   (IF TypeNibble(bs) = 1 THEN "P2PK"
                    ELSE IF TypeNibble(bs) = 2 THEN "P2SH" ELSE "P2S")
            /\ TypeNibble(bs) \in {1, 2, 3}
            /\ a.network = (IF NetNibble(bs) = 1 THEN "Testnet" ELSE "Mainnet")
            /\ a.address_type = "P2PK" =>
                   a.ergo_tree = <<0, 8, 205>> \o BodyOf(bs) /\ Len(a.ergo_tree) = 36
            /\ a.address_type = "P2SH" =>
                   /\ a.ergo_tree =
                          <<0, 234, 2, 209, 147, 180, 203, 228, 227, 1, 14, 4, 0, 4, 48, 14, 24>>
                              \o BodyOf(bs) \o <<212, 8, 1>>
                   /\ Len(a.ergo_tree) = 44
            /\ a.address_type = "P2S" => a.ergo_tree = BodyOf(bs)

C4_Witness ==
    /\ run = "text"
    /\ address.tag = "Ok"
    /\ address.val.address_type = "P2SH"
    /\ address.val.network = "Testnet"
    /\ Len(address.val.ergo_tree) = 44

\* C5: decode_unsafe differs from decode by the checksum step only.  Where
\* decode is Ok, decode_unsafe is Ok with the same address; where decode
\* fails with an error other than InvalidChecksum, decode_unsafe fails with
\* the same error; where decode fails with InvalidChecksum, decode_unsafe is
\* Ok or fails with InvalidErgoTree.
C5_UnsafeRefinesDecode ==
    (run = "text" /\ address # NotCalled /\ r_unsafe # NotCalled) =>
        /\ address.tag \in {"Ok", "Err"}
        /\ address.tag = "Ok" => r_unsafe = address
        /\ (address.tag = "Err" /\ address.err # "InvalidChecksum") => r_unsafe = address
        /\ address = Err("InvalidChecksum") =>
               r_unsafe.tag = "Ok" \/ r_unsafe = Err("InvalidErgoTree")

C5_Witness ==
    /\ address = Err("InvalidChecksum")
    /\ r_unsafe.tag = "Ok"
    /\ r_unsafe.val.address_type = "P2PK"

\* the altered text decodes to bytes whose last four are the digest of the rest
ChecksumCollision ==
    /\ dec_bytes.tag = "Ok"
    /\ Len(dec_bytes.val) >= 5
    /\ SumMatches(dec_bytes.val)

\* C6 as stated, for replacement characters of the alphabet: after one
\* character of an accepted text is replaced by a different one, decode
\* fails with InvalidChecksum (checksum collisions excepted) and
\* decode_unsafe succeeds.
C6_Original ==
    (/\ orig # NotAltered
     /\ r_unsafe # NotCalled
     /\ encoded[orig.pos] \in AlphabetChars
     /\ ~ChecksumCollision) =>
        address = Err("InvalidChecksum") /\ r_unsafe.tag = "Ok"

\* C6: checksum sensitivity.  After one character of an accepted text is
\* replaced by a character outside the alphabet, decode and decode_unsafe
\* fail with Base58DecodeError.  After it is replaced by a different character
\* of the alphabet, the text decodes to bytes other than the original ones
\* and, checksum collisions excepted, decode fails with InvalidChecksum,
\* InvalidAddressType or AddressTooShort; when the decoded bytes keep the
\* original length and header byte, decode fails with InvalidChecksum
\* (collisions excepted) and decode_unsafe succeeds.
C6_ChecksumSensitivity ==
    (orig # NotAltered /\ r_unsafe # NotCalled) =>
        IF encoded[orig.pos] \notin AlphabetChars
        THEN address = Err("Base58DecodeError") /\ r_unsafe = Err("Base58DecodeError")
        ELSE /\ dec_bytes.tag = "Ok"
             /\ dec_bytes.val # orig.bytes
             /\ ~ChecksumCollision =>
                    /\ address.tag = "Err"
                    /\ address.err \in {"InvalidChecksum", "InvalidAddressType", "AddressTooShort"}
             /\ (Len(dec_bytes.val) = Len(orig.bytes) /\ HeadOf(dec_bytes.val) = HeadOf(orig.bytes)) =>
                    /\ ~ChecksumCollision => address = Err("InvalidChecksum")
                    /\ r_unsafe.tag = "Ok"

\* the last character of a P2PK address replaced by 's'
C6_Witness ==
    /\ orig # NotAltered
    /\ orig.pos = Len(orig.text)
    /\ encoded[orig.pos] = 115
    /\ address = Err("InvalidChecksum")
    /\ r_unsafe.tag = "Ok"
    /\ r_unsafe.val.address_type = "P2PK"
    /\ Len(r_unsafe.val.ergo_tree) = 36

\* The two fixed shapes, read off the tree bytes themselves.
IsP2pkShape(tree) == Len(tree) = 36 /\ SubSeq(tree, 1, 3) = <<0, 8, 205>>
IsP2shShape(tree) ==
    /\ Len(tree) = 44
    /\ SubSeq(tree, 1, 17) =
           <<0, 234, 2, 209, 147, 180, 203, 228, 227, 1, 14, 4, 0, 4, 48, 14, 24>>
    /\ SubSeq(tree, 42, 44) = <<212, 8, 1>>

\* C7 as stated: the type of every address from_ergo_tree, decode or
\* decode_unsafe returns is the type get_ergo_tree_type assigns to its tree.
C7_Original ==
    /\ address.tag = "Ok" =>
           address.val.address_type = get_ergo_tree_type(address.val.ergo_tree)
    /\ r_unsafe.tag = "Ok" =>
           r_unsafe.val.address_type = get_ergo_tree_type(r_unsafe.val.ergo_tree)

\* C7: type and shape.  from_ergo_tree never fails and gives P2PK exactly to
\* trees of the P2PK shape, P2SH exactly to trees of the P2SH shape and P2S
\* to all others.  An address that decode or decode_unsafe returns as P2PK
\* or P2SH has a tree of that shape; one returned as P2S keeps the type of
\* its header whatever the shape of its body.
C7_TypeShape ==
    LET Shaped(a) ==
            /\ a.address_type = "P2PK" => IsP2pkShape(a.ergo_tree)
            /\ a.address_type = "P2SH" => IsP2shShape(a.ergo_tree)
        Classified(a) ==
            /\ a.address_type = "P2PK" <=> IsP2pkShape(a.ergo_tree)
            /\ a.address_type = "P2SH" <=> IsP2shShape(a.ergo_tree)
            /\ a.address_type \in AddressTypes
    IN  /\ (run = "tree" /\ address # NotCalled) =>
               address.tag = "Ok" /\ Classified(address.val)
        /\ (run = "text" /\ address.tag = "Ok") => Shaped(address.val)
        /\ r_unsafe.tag = "Ok" => Shaped(r_unsafe.val)

\* decode of a P2S header followed by a tree of the P2PK shape
C7_Witness ==
    /\ run = "text"
    /\ address.tag = "Ok"
    /\ address.val.address_type = "P2S"
    /\ IsP2pkShape(address.val.ergo_tree)

\* C8 as stated: get_network_type and get_address_type return Ok,
\* Base58DecodeError or AddressTooShort and nothing else.
C8_Original ==
    /\ r_network # NotCalled =>
           \/ r_network.tag = "Ok"
           \/ r_network \in {Err("Base58DecodeError"), Err("AddressTooShort")}
    /\ r_type # NotCalled =>
           \/ r_type.tag = "Ok"
           \/ r_type \in {Err("Base58DecodeError"), Err("AddressTooShort")}

\* C8: the two inspections depend on the base58 step and the first byte
\* alone.  Both fail with Base58DecodeError on a text outside the alphabet
\* and with AddressTooShort when no byte is decoded; otherwise
\* get_network_type is Ok and get_address_type is Ok with the type of the low
\* nibble, or InvalidAddressType when the low nibble is not 1, 2 or 3,
\* whatever the checksum and the body are.
C8_InspectErrors ==
    (run = "text" /\ r_type # NotCalled) =>
        IF ~IsBase58Text(encoded)
        THEN r_network = Err("Base58DecodeError") /\ r_type = Err("Base58DecodeError")
        ELSE IF dec_bytes.val = <<>>
        THEN r_network = Err("AddressTooShort") /\ r_type = Err("AddressTooShort")
        ELSE /\ r_network.tag = "Ok"
             /\ r_type =
                    (IF TypeNibble(dec_bytes.val) = 1 THEN Ok("P2PK")
                     ELSE IF TypeNibble(dec_bytes.val) = 2 THEN Ok("P2SH")
                     ELSE IF TypeNibble(dec_bytes.val) = 3 THEN Ok("P2S")
                     ELSE Err("InvalidAddressType"))

C8_Witness ==
    /\ r_type = Err("InvalidAddressType")
    /\ r_network = Ok("Testnet")
    /\ TypeNibble(dec_bytes.val) = 4

\* C9 as stated: the text decode accepted is the text encode returns.
C9_Original ==
    (run = "text" /\ orig = NotAltered /\ a_enc # NotCalled) => a_enc = Ok(encoded)

\* C9: re-encoding a decoded address.  encode of the address decode returned
\* succeeds, and it returns the input text exactly when the high nibble of
\* the header byte is 0 or 1; for any other high nibble it returns the text
\* of the Mainnet header.
C9_ReencodeDecoded ==
    (run = "text" /\ orig = NotAltered /\ a_enc # NotCalled) =>
        /\ a_enc.tag = "Ok"
        /\ a_enc.val = encoded <=> NetNibble(dec_bytes.val) \in {0, 1}
        /\ a_enc.val =
               bs58_encode(Packed(TypeNibble(dec_bytes.val)
                                      + (IF NetNibble(dec_bytes.val) = 1 THEN 16 ELSE 0),
                                  BodyOf(dec_bytes.val), TRUE)).val

C9_Witness ==
    /\ run = "text"
    /\ a_enc = Ok(encoded)
    /\ HeadOf(dec_bytes.val) = 18
    /\ Len(dec_bytes.val) = 29

\* C10: lenient network.  get_network_type is Ok on every text that decodes
\* to at least one byte, with Testnet for high nibble 1 and Mainnet for every
\* other high nibble.  Whether decode and decode_unsafe succeed is decided by
\* the length, the type nibble, the checksum and the body length, whatever
\* the high nibble is, and the network of the address they return follows
\* the same rule.
C10_LenientNetwork ==
    LET bs == dec_bytes.val
        net == IF NetNibble(bs) = 1 THEN "Testnet" ELSE "Mainnet"
    IN  /\ (run = "text" /\ r_network # NotCalled /\ dec_bytes.tag = "Ok" /\ bs # <<>>) =>
               r_network = Ok(net)
        /\ (/\ run = "text"
            /\ r_unsafe # NotCalled
            /\ dec_bytes.tag = "Ok"
            /\ Len(bs) >= 5
            /\ TypeNibble(bs) \in {1, 2, 3}) =>
               /\ r_unsafe.tag = "Ok" <=> BodyFits(bs)
               /\ address.tag = "Ok" <=> (SumMatches(bs) /\ BodyFits(bs))
               /\ r_unsafe.tag = "Ok" => r_unsafe.val.network = net
               /\ address.tag = "Ok" => address.val.network = net

C10_Witness ==
    /\ run = "text"
    /\ address.tag = "Ok"
    /\ NetNibble(dec_bytes.val) = 15
    /\ r_network = Ok("Mainnet")
    /\ address.val.network = "Mainnet"

\* C14: decode_into agrees with decode.  For every text of alphabet
\* characters and every buffer at least as long as the decoded bytes,
\* whatever it held, decode_into returns the count n of decoded bytes and
\* leaves them in buffer[0..n], the buffer keeping its length; on the empty
\* text it returns 0.
C14_DecodeIntoAgrees ==
    (b58_into # NotCalled /\ IsBase58Text(b58_text.val)) =>
        /\ b58_back.tag = "Ok"
        /\ b58_into.tag = "Ok"
        /\ b58_into.val.n = Len(b58_back.val)
        /\ SubSeq(b58_into.val.buf, 1, b58_into.val.n) = b58_back.val
        /\ Len(b58_into.val.buf) = Len(b58_buf)
        /\ b58_text.val = <<>> => b58_into.val.n = 0

\* "11233QC4" into a buffer of six bytes 0xFF
C14_Witness ==
    /\ b58_into.tag = "Ok"
    /\ b58_text.val = ZerosVectorText
    /\ b58_buf = <<255, 255, 255, 255, 255, 255>>
    /\ b58_into.val.n = 6
    /\ b58_into.val.buf = <<0, 0, 40, 127, 180, 205>>

\* the number of zero bytes data starts with
LeadingZeros(data) ==
    CHOOSE z \in 0..Len(data) :
        /\ \A i \in 1..z : data[i] = 0
        /\ z = Len(data) \/ data[z + 1] # 0

\* C15: leading zeros.  The text encode returns for bytes with z leading zero
\* bytes has '1' at its first z positions and, when it is longer than z, a
\* character other than '1' after them.
C15_LeadingZeros ==
    (run = "base58" /\ b58_text # NotCalled) =>
        /\ b58_text.tag = "Ok"
        /\ LET z == LeadingZeros(b58_data)
               t == b58_text.val
           IN  /\ Len(t) >= z
               /\ \A i \in 1..z : t[i] = 49
               /\ Len(t) > z => t[z + 1] # 49
               /\ Len(t) = z <=> Len(b58_data) = z

\* encode(&[0, 0, 57]) = "11z"
C15_Witness ==
    /\ b58_data = <<0, 0, 57>>
    /\ b58_text = Ok(<<49, 49, 122>>)

\* Long division of big-endian bytes by 58, most significant byte first, for
\* the bytes bs[lo..hi]: st holds the quotient's bytes so far and the
\* remainder (the bytes are taken by quarters of the range, in their order).
RECURSIVE DivBy58Bytes(_, _, _, _)
DivBy58Bytes(bs, lo, hi, st) ==
    LET m1 == lo + (hi - lo) \div 4
        m2 == lo + (hi - lo) \div 2
        m3 == lo + (3 * (hi - lo)) \div 4
        q1 == DivBy58Bytes(bs, lo, m1, st)
        q2 == DivBy58Bytes(bs, m1, m2, q1)
        q3 == DivBy58Bytes(bs, m2, m3, q2)
    IN  CASE lo >= hi -> st
          [] lo + 1 = hi ->
               LET v == st.rem * 256 + bs[lo + 1]
               IN  [quot |-> Append(st.quot, v \div 58), rem |-> v % 58]
          [] q1 # q1 -> st
          [] q2 # q2 -> st
          [] q3 # q3 -> st
          [] OTHER -> DivBy58Bytes(bs, m3, hi, q3)

\* the quotient's bytes and the remainder
DivBy58(bs) == DivBy58Bytes(bs, 0, Len(bs), [quot |-> <<>>, rem |-> 0])

\* Steps lo..hi of: divide the number by 58 and put the remainder in front
\* of the digits, until the number is zero (the steps are taken by quarters
\* of the range).
RECURSIVE DivideOut(_, _, _)
DivideOut(st, lo, hi) ==
    LET m1 == lo + (hi - lo) \div 4
        m2 == lo + (hi - lo) \div 2
        m3 == lo + (3 * (hi - lo)) \div 4
        q1 == DivideOut(st, lo, m1)
        q2 == DivideOut(q1, m1, m2)
        q3 == DivideOut(q2, m2, m3)
        d  == DivBy58(st.num)
    IN  CASE lo >= hi -> st
          [] lo + 1 = hi /\ \A i \in 1..Len(st.num) : st.num[i] = 0 -> st
          [] lo + 1 = hi -> [num |-> d.quot, digits |-> <<d.rem>> \o st.digits]
          [] q1 # q1 -> st
          [] q2 # q2 -> st
          [] q3 # q3 -> st
          [] OTHER -> DivideOut(q3, m3, hi)

\* The base-58 digits, most significant first, of the number that big-endian
\* bytes denote (no digit for zero); there are at most two for each byte.
Base58Digits(bs) == DivideOut([num |-> bs, digits |-> <<>>], 0, 2 * Len(bs)).digits

\* C16: encode is the standard conversion.  The text is one '1' for each
\* leading zero byte, then the alphabet characters of the base-58 digits,
\* most significant first, of the number the remaining bytes denote; the
\* vectors of test_known_vectors come out as "2NEpo7TZRRrLZSi2U" and
\* "11233QC4".
C16_StandardConversion ==
    (run = "base58" /\ b58_text # NotCalled) =>
        /\ b58_text =
               Ok([i \in 1..LeadingZeros(b58_data) |-> 49]
                      \o Let(Base58Digits(b58_data),
                             LAMBDA ds : [i \in 1..Len(ds) |-> ALPHABET[ds[i] + 1]]))
        /\ b58_data = HelloWorld => b58_text.val = HelloWorldText
        /\ b58_data = <<0, 0, 40, 127, 180, 205>> => b58_text.val = ZerosVectorText
        /\ b58_data = AlphabetVector => b58_text.val = ALPHABET

C16_Witness ==
    /\ b58_data = HelloWorld
    /\ b58_text = Ok(HelloWorldText)

\* the position of the first character of text outside the alphabet
FirstInvalid(text) ==
    CHOOSE i \in 1..Len(text) :
        /\ text[i] \notin AlphabetChars
        /\ \A j \in 1..(i - 1) : text[j] \in AlphabetChars

\* the code point of the UTF-8 character whose first code unit is text[i]
CodePointAt(text, i) ==
    LET units == IF text[i] < 128 THEN 1 ELSE IF text[i] < 224 THEN 2
                 ELSE IF text[i] < 240 THEN 3 ELSE 4
        lead  == IF units = 1 THEN text[i]
                 ELSE IF units = 2 THEN text[i] - 192
                 ELSE IF units = 3 THEN text[i] - 224 ELSE text[i] - 240
        RECURSIVE Value(_, _)
        Value(k, acc) ==
            IF k = units THEN acc ELSE Value(k + 1, acc * 64 + (text[i + k] - 128))
    IN  Value(1, lead)

\* C17: invalid characters.  decode of a text with a character outside the
\* alphabet fails with InvalidCharacter of the first such character, the
\* whole character when it has several code units, and returns no bytes;
\* decode of a text of alphabet characters succeeds.
C17_InvalidCharacter ==
    (run = "base58text" /\ b58_back # NotCalled) =>
        LET t == b58_text.val
        IN  IF IsBase58Text(t) THEN b58_back.tag = "Ok"
            ELSE /\ b58_back.tag = "Err"
                 /\ b58_back.err = "InvalidCharacter"
                 /\ b58_back.ch = CodePointAt(t, FirstInvalid(t))
                 /\ b58_back.val = <<>>

\* "2😀O": the character reported is U+1F600
C17_Witness ==
    /\ b58_text.val = <<50, 240, 159, 152, 128, 79>>
    /\ b58_back.tag = "Err"
    /\ b58_back.ch = 128512

\* C11: what encode_for_network packs.  For an address built by
\* from_ergo_tree or decode and either network, the text decodes (base58) to
\* the header byte network value + type value, the payload (the tree
\* without 00 08 cd for P2PK, the 24 bytes after the 17-byte prefix for P2SH,
\* the whole tree for P2S) and the first four bytes of the digest of header
\* and payload; encode is encode_for_network with the address's own network;
\* validate accepts the text.
C11_EncodePacks ==
    a_encn # NotCalled =>
        LET a == address.val
            head == (IF net_b = "Testnet" THEN 16 ELSE 0)
                        + (IF a.address_type = "P2PK" THEN 1
                           ELSE IF a.address_type = "P2SH" THEN 2 ELSE 3)
            payload == IF a.address_type = "P2PK" THEN SubSeq(a.ergo_tree, 4, Len(a.ergo_tree))
                       ELSE IF a.address_type = "P2SH" THEN SubSeq(a.ergo_tree, 18, 41)
                       ELSE a.ergo_tree
        IN  /\ a_encn.tag = "Ok"
            /\ bs58_decode(a_encn.val) =
                   Ok(<<head>> \o payload \o SubSeq(blake2b256(<<head>> \o payload), 1, 4))
            /\ net_b = a.network => a_encn = a_enc
            /\ a_valid # NotCalled => a_valid = Ok(TRUE)

C11_Witness ==
    /\ run = "tree"
    /\ tree_in = P2pkTree
    /\ network_in = "Mainnet"
    /\ net_b = "Testnet"
    /\ a_valid = Ok(TRUE)

\* C12: network re-encoding.  For every text decode accepts and every
\* network B, decode of encode_for_network(decode(text), B) succeeds with
\* network B and the tree and type of decode(text).
C12_NetworkReencoding ==
    (run = "text" /\ a_decn # NotCalled) =>
        /\ a_decn.tag = "Ok"
        /\ a_decn.val.network = net_b
        /\ a_decn.val.ergo_tree = address.val.ergo_tree
        /\ a_decn.val.address_type = address.val.address_type

C12_Witness ==
    /\ run = "text"
    /\ a_decn.tag = "Ok"
    /\ address.val.network = "Mainnet"
    /\ net_b = "Testnet"
    /\ a_decn.val.network = "Testnet"
    /\ a_decn.val.address_type = "P2SH"

\* C13: from_ergo_tree never fails, keeps the tree and the network, and
\* gives the type by shape: P2PK for 36 bytes starting with 00 08 cd,
\* otherwise P2SH for 44 bytes with the 17-byte prefix and the suffix
\* d4 08 01, otherwise P2S (the empty tree and trees of 36 or 44 bytes with a
\* wrong prefix or suffix included).
C13_ShapeClassification ==
    (run = "tree" /\ address # NotCalled) =>
        /\ address.tag = "Ok"
        /\ address.val.ergo_tree = tree_in
        /\ address.val.network = network_in
        /\ address.val.address_type =
               (IF IsP2pkShape(tree_in) THEN "P2PK"
                ELSE IF IsP2shShape(tree_in) THEN "P2SH" ELSE "P2S")

\* 44 bytes with the P2SH prefix and a wrong suffix: P2S
C13_Witness ==
    /\ run = "tree"
    /\ tree_in = WrongSuffix(P2shTree)
    /\ address.tag = "Ok"
    /\ address.val.address_type = "P2S"

\* C18: the tree helpers.  tree_to_base58 fails with InvalidErgoTree on the
\* empty tree and otherwise returns the text of
\* from_ergo_tree(tree, network).encode(); base58_to_tree returns the tree
\* of decode(text), or decode's error; base58_to_tree of tree_to_base58's
\* text is the tree.
C18_TreeHelpers ==
    /\ (run = "tree" /\ r_t2b # NotCalled) =>
           IF tree_in = <<>> THEN r_t2b = Err("InvalidErgoTree")
           ELSE r_t2b.tag = "Ok" /\ r_t2b = a_enc
    /\ (run = "tree" /\ r_b2t # NotCalled) => r_b2t = Ok(tree_in)
    /\ (run = "text" /\ r_b2t # NotCalled) =>
           r_b2t = (IF address.tag = "Ok" THEN Ok(address.val.ergo_tree) ELSE address)

C18_Witness ==
    /\ run = "tree"
    /\ tree_in = P2shTree
    /\ network_in = "Testnet"
    /\ r_t2b.tag = "Ok"
    /\ r_b2t = Ok(P2shTree)

\* C19: validate(text) is true exactly when decode(text) is Ok; it is false
\* for a text that decodes to fewer than five bytes and for one with a wrong
\* checksum.
C19_ValidateIsDecodeOk ==
    (run = "text" /\ r_validate # NotCalled) =>
        /\ r_validate = Ok(address.tag = "Ok")
        /\ (dec_bytes.tag = "Ok" /\ Len(dec_bytes.val) < 5) => r_validate = Ok(FALSE)
        /\ (dec_bytes.tag = "Ok" /\ Len(dec_bytes.val) >= 5 /\ ~SumMatches(dec_bytes.val)) =>
               r_validate = Ok(FALSE)

\* a wrong checksum on bytes that decode_unsafe accepts
C19_Witness ==
    /\ r_validate = Ok(FALSE)
    /\ address = Err("InvalidChecksum")
    /\ r_unsafe.tag = "Ok"

\* C20: get_public_key is Some exactly for a P2PK address, with the 33 bytes
\* of the tree after 00 08 cd, which are the body of the decoded address;
\* it is None for P2SH and P2S.
C20_PublicKey ==
    r_pubkey # NotCalled =>
        LET a == address.val
        IN  IF a.address_type = "P2PK"
            THEN /\ r_pubkey = Some(SubSeq(a.ergo_tree, 4, Len(a.ergo_tree)))
                 /\ Len(r_pubkey.val) = 33
                 /\ run = "text" => r_pubkey.val = BodyOf(dec_bytes.val)
            ELSE r_pubkey = None

C20_Witness ==
    /\ run = "text"
    /\ address.tag = "Ok"
    /\ address.val.network = "Testnet"
    /\ r_pubkey = Some(PubKey)

\* how the calls of an address run ended
AddressOutcomeTags ==
    {dec_bytes.tag, address.tag, r_unsafe.tag, r_validate.tag, r_network.tag, r_type.tag,
     a_enc.tag, a_dec.tag, a_encn.tag, a_decn.tag, a_valid.tag, r_pubkey.tag, r_t2b.tag,
     r_b2t.tag, u_enc.tag, u_pubkey.tag}

\* C21: no address operation faults.  No call of an address run ends in an
\* out-of-range index: decode, decode_unsafe, validate, get_network_type and
\* get_address_type return a value or an error on every text, and for every
\* address from from_ergo_tree, decode or decode_unsafe a P2PK tree has at
\* least 3 bytes and a P2SH tree at least 41, so that encode_for_network and
\* get_public_key return.
C21_NoFault ==
    /\ "Panic" \notin AddressOutcomeTags
    /\ {address.tag, r_unsafe.tag, r_validate.tag, r_network.tag, r_type.tag}
           \subseteq {"None", "Ok", "Err"}
    /\ address.tag = "Ok" =>
           /\ address.val.address_type = "P2PK" => Len(address.val.ergo_tree) >= 3
           /\ address.val.address_type = "P2SH" => Len(address.val.ergo_tree) >= 17 + 24
    /\ r_unsafe.tag = "Ok" =>
           /\ r_unsafe.val.address_type = "P2PK" => Len(r_unsafe.val.ergo_tree) >= 3
           /\ r_unsafe.val.address_type = "P2SH" => Len(r_unsafe.val.ergo_tree) >= 17 + 24
    /\ address.tag = "Ok" => (a_enc # NotCalled => a_enc.tag = "Ok")
    /\ u_enc # NotCalled => u_enc.tag = "Ok"
    /\ u_pubkey # NotCalled => u_pubkey.tag \in {"Some", "Nothing"}

\* an altered text that only decode_unsafe accepts: its P2SH address was
\* encoded and asked for its public key
C21_Witness ==
    /\ run = "text"
    /\ pc = "done"
    /\ orig # NotAltered
    /\ address = Err("InvalidChecksum")
    /\ r_unsafe.tag = "Ok"
    /\ r_unsafe.val.address_type = "P2SH"
    /\ u_enc.tag = "Ok"
    /\ u_pubkey = None

\* C22: length of the encoding.  encode writes within its buffer (it returns
\* a text on every input) and the text has at most input_len*138/100 + 1
\* characters.
C22_EncodedLength ==
    (run = "base58" /\ b58_text # NotCalled) =>
        /\ b58_text.tag = "Ok"
        /\ Len(b58_text.val) <= (Len(b58_data) * 138) \div 100 + 1

\* 32 bytes 0xFF give 44 characters, one less than the bound
C22_Witness ==
    /\ run = "base58"
    /\ b58_data = MaxedBytes(32)
    /\ b58_text.tag = "Ok"
    /\ Len(b58_text.val) = 44

\* the number of '1' text starts with
LeadingOnes(text) ==
    CHOOSE z \in 0..Len(text) :
        /\ \A i \in 1..z : text[i] = 49
        /\ z = Len(text) \/ text[z + 1] # 49

\* C23: length of the decoding.  On every text of alphabet characters decode
\* writes within its buffer (it returns bytes) and returns at most as many
\* bytes as the text has leading '1' plus remaining*733/1000 + 1, which is
\* at most input_len*733/1000 + 1 plus the leading '1'.
C23_DecodedLength ==
    (b58_back # NotCalled /\ IsBase58Text(b58_text.val)) =>
        LET t == b58_text.val
            z == LeadingOnes(t)
        IN  /\ b58_back.tag = "Ok"
            /\ t # <<>> => Len(b58_back.val) <= z + ((Len(t) - z) * 733) \div 1000 + 1
            /\ Len(b58_back.val) <= (Len(t) * 733) \div 1000 + 1 + z

\* 44 characters 'z' give 33 bytes, the bound itself
C23_Witness ==
    /\ run = "base58text"
    /\ b58_text.val = MaxedText(44)
    /\ b58_back.tag = "Ok"
    /\ Len(b58_back.val) = 33

\* C24: text round trip.  For every text of alphabet characters, encode of
\* the bytes decode returned is the text.
C24_TextRoundTrip ==
    (b58_again # NotCalled /\ IsBase58Text(b58_text.val)) =>
        b58_again = Ok(b58_text.val)

C24_Witness ==
    /\ run = "base58text"
    /\ b58_text.val = ZerosVectorText
    /\ b58_back = Ok(<<0, 0, 40, 127, 180, 205>>)
    /\ b58_again = Ok(ZerosVectorText)

\* the last_update of the published snapshot, -1 before spawn made the swap
PublishedTime == IF swap.tag = "ArcSwap" THEN swap.val.last_update ELSE -1

\* the responses of a pool whose every input carries a UTxO, in the pool's order
RECURSIVE WithAllUtxos(_)
WithAllUtxos(pool) ==
    IF pool = <<>> THEN <<>>
    ELSE LET utx == Head(pool)
             missing == {i \in DOMAIN utx.inputs : utx.inputs[i].utxo = None}
         IN  (IF missing = {} THEN <<utx>> ELSE <<>>) \o WithAllUtxos(Tail(pool))

\* a response whose inputs all carry a UTxO, as an UnconfirmedTransaction
Converted(utx) ==
    [id |-> utx.id,
     inputs |-> [i \in DOMAIN utx.inputs |->
                    [utxo |-> utx.inputs[i].utxo.val,
                     spending_proof |-> utx.inputs[i].spending_proof]] \o <<>>,
     outputs |-> utx.outputs]

\* C25: publishing only on progress.  The swap is made with the default
\* snapshot (last_update 0, no transactions); every later change of the swap
\* happens in an iteration whose timestamp request returned Ok of a value
\* greater than the published last_update and whose snapshot request returned
\* Ok, and stores that value and those transactions: the published
\* last_update strictly increases.
C25_PublishOnProgress ==
    [][swap' # swap =>
        IF swap = NotCalled
        THEN swap' = ArcSwap(MempoolSnapshot_default)
        ELSE /\ r_info.tag = "Ok"
             /\ r_info.val > swap.val.last_update
             /\ r_snapshot'.tag = "Ok"
             /\ swap'.val = MempoolSnapshot(r_info.val, r_snapshot'.val)
             /\ swap'.val.last_update > swap.val.last_update]_vars

\* a snapshot of two transactions was published for timestamp 2
C25_Witness ==
    /\ run = "watcher"
    /\ task_pc = "sleep"
    /\ r_info = Ok(2)
    /\ r_snapshot.tag = "Ok"
    /\ swap = ArcSwap(MempoolSnapshot(2, r_snapshot.val))
    /\ Len(r_snapshot.val) = 2

\* C26: state kept on failure.  An iteration whose timestamp request failed
\* or returned a value not greater than last_update, or whose snapshot
\* request failed, leaves the swap and last_update as they were and goes to
\* sleep; sleep goes to the next poll; the task never ends.
C26_KeepsStateOnFailure ==
    [][/\ ~task_finished(task_pc')
       /\ (task_pc = "get_timestamp" /\ task_pc' # task_pc
            /\ (r_info'.tag = "Err" \/ r_info'.val <= last_update))
           => (swap' = swap /\ last_update' = last_update /\ task_pc' = "sleep")
       /\ (task_pc = "get_snapshot" /\ task_pc' # task_pc /\ r_snapshot'.tag # "Ok")
           => (swap' = swap /\ last_update' = last_update /\ task_pc' = "sleep")
       /\ (task_pc = "sleep" /\ task_pc' # task_pc)
           => (swap' = swap /\ last_update' = last_update /\ task_pc' = "get_timestamp")]_vars

\* the snapshot request failed for timestamp 2 after timestamp 1 was published
C26_Witness ==
    /\ run = "watcher"
    /\ task_pc = "sleep"
    /\ r_info = Ok(2)
    /\ r_snapshot = NodeError
    /\ last_update = 1
    /\ PublishedTime = 1

\* the timestamp the task is about to publish: the one it read in this
\* iteration when it is at the snapshot request, else the published one
InFlightTime == IF task_pc = "get_snapshot" THEN r_info.val ELSE PublishedTime

\* C27: catching up.  The loop's last_update is the published one, so a
\* failed snapshot request is retried; and under fair scheduling, whenever
\* the node's timestamp stays at a value T greater than the published
\* last_update and not less than a timestamp the task has read and not yet
\* published, and both requests succeed from then on, a snapshot with
\* last_update = T is eventually published.
C27_CatchesUp ==
    /\ [](task_pc \in {"get_timestamp", "get_snapshot", "sleep"} => last_update = PublishedTime)
    /\ \A T \in Times :
        []((PublishedTime < T /\ InFlightTime <= T
                /\ [](node_time = T /\ info_up /\ pool_up))
              => <>(PublishedTime = T))

\* C27 as stated: T is only compared with the published last_update
C27_Original ==
    \A T \in Times :
        []((PublishedTime < T /\ [](node_time = T /\ info_up /\ pool_up))
              => <>(PublishedTime = T))

\* the node's timestamp is published while its requests succeed
C27_Witness ==
    /\ run = "watcher"
    /\ PublishedTime = MaxTime
    /\ node_time = MaxTime
    /\ info_up
    /\ pool_up
    /\ task_pc = "get_timestamp"

\* C28: spawn returns while the task polls.  A call of spawn eventually
\* completes with the task still in its loop.
C28_SpawnReturns ==
    <>(spawn_pc = "returned" /\ task_pc \in {"get_timestamp", "get_snapshot", "sleep"})

\* C29: the snapshot request.  get_mempool_snapshot returns the conversions
\* of exactly the responses whose every input carries a UTxO, in order; no
\* conversion panics; and every input of every published transaction is a
\* UTxO.
C29_OnlyCompleteTransactions ==
    /\ "Panic" \notin {r_snapshot.tag}
    /\ task_pc # "panicked"
    /\ resp.tag = "Ok" =>
        LET kept == WithAllUtxos(resp.val)
        IN  r_snapshot = Ok([k \in 1..Len(kept) |-> Converted(kept[k])] \o <<>>)
    /\ swap.tag = "ArcSwap" =>
        \A k \in 1..Len(swap.val.transactions) :
            \A i \in 1..Len(swap.val.transactions[k].inputs) :
                swap.val.transactions[k].inputs[i].utxo \in {1, 2}

\* transactions 1 and 3 of a pool are dropped, transaction 2 is published
C29_Witness ==
    /\ run = "watcher"
    /\ resp = Ok(<<PartTx(1), FullTx(2), PartTx(3)>>)
    /\ r_snapshot.tag = "Ok"
    /\ Len(r_snapshot.val) = 1
    /\ r_snapshot.val[1].id = 2
    /\ swap.tag = "ArcSwap"
    /\ swap.val.transactions = r_snapshot.val

=============================================================================
